---- MODULE Spec2Model ----
(***************************************************************************)
(* Token lifecycle of realm-graphql: AuthenticationHelper (authenticate,   *)
(* refreshAccessToken, revoke), User.logOut and the self-rescheduling      *)
(* refresh loop of GraphQLConfig (create, constructor, refreshToken,       *)
(* connectionParams, authLink).                                            *)
(*                                                                         *)
(* One user and one configuration are modelled.  Time is the value of      *)
(* Date.now() in milliseconds; it advances to the due time of a pending    *)
(* timer.  A JavaScript timer fires at or after its due time, so firing is *)
(* enabled from the due time on.                                           *)
(***************************************************************************)
EXTENDS Integers, Sequences, FiniteSets, TLC

\* ---------------------------------------------------------------- bounds
MaxCalls == 3        \* refreshToken invocations per behaviour
MaxSessionCalls == 4 \* the same, in the specifications of one session
MaxNow == 13000      \* last value of Date.now() that is explored
MaxLogOuts == 1      \* logOut invocations per behaviour
MaxForced == 1       \* refreshToken invocations made from outside

\* ------------------------------------------------------- program constants
RetryDelay == 3000      \* this.refreshToken(3000)
RefreshEarly == 10000   \* expires - Date.now() - 10000

\* --------------------------------------------------------------- values
NULL == "null"          \* JavaScript null / undefined for strings
NullExpires == -1       \* JavaScript null for AccessToken.expires

\* JavaScript truthiness of a string-or-null value: if (x)
Truthy(x) == x # NULL /\ x # ""

\* JavaScript truthiness of AccessToken.expires: if (accessToken.expires)
TruthyExpires(e) == e # NullExpires /\ e # 0

\* JavaScript ToNumber of AccessToken.expires in arithmetic: null -> 0
ToNumber(e) == IF e = NullExpires THEN 0 ELSE e

AccessToken(token, expires) == [token |-> token, expires |-> expires]
NoAccessToken == AccessToken(NULL, NullExpires)

\* new URI(server): the parts of the server URL the code looks at; scheme()
\* is the scheme as it was written, so "HTTP" is not "http" for the code,
\* while fetch serves such a URL
NoServer == [scheme |-> "", host |-> ""]
Servers == { [scheme |-> "http", host |-> "h:9080"],
             [scheme |-> "HTTP", host |-> "h:9080"] }

\* if (!user.server)
ServerSet(server) == server # NoServer

\* ----------------------------------------------------------- credentials
\* an optional argument that was omitted
Undefined == "undefined"

\* a usernamePassword that sends the password as data
usernamePasswordAsData(username, password, createUser) ==
  [ data |-> password, provider |-> "password",
    user_info |-> [present |-> TRUE, register |-> createUser = "true",
                   password |-> password] ]

\* Credentials.usernamePassword(username, password, createUser); createUser
\* is "true", "false" or Undefined, and register is createUser || false
usernamePassword(username, password, createUser) ==
  [ data |-> username, provider |-> "password",
    user_info |-> [present |-> TRUE, register |-> createUser = "true",
                   password |-> password] ]

\* a Credentials value without the optional user_info field
NoUserInfo == [present |-> FALSE, register |-> FALSE, password |-> NULL]

\* Credentials.facebook(facebookToken)
facebook(facebookToken) ==
  [ data |-> facebookToken, provider |-> "facebook", user_info |-> NoUserInfo ]

\* Credentials.google(googleToken)
google(googleToken) ==
  [ data |-> googleToken, provider |-> "google", user_info |-> NoUserInfo ]

\* Credentials.azureAD(adToken)
azureAD(adToken) ==
  [ data |-> adToken, provider |-> "azuread", user_info |-> NoUserInfo ]

\* Credentials.jwt(jwtToken)
jwt(jwtToken) ==
  [ data |-> jwtToken, provider |-> "jwt", user_info |-> NoUserInfo ]

\* Credentials.Custom(provider, token, userInfo)
Custom(provider, token, userInfo) ==
  [ provider |-> provider, data |-> token, user_info |-> userInfo ]

\* Credentials.admin(adminToken)
admin(adminToken) ==
  [ data |-> adminToken, provider |-> "__admin", user_info |-> NoUserInfo ]

\* Credentials.anonymous()
anonymous ==
  [ data |-> NULL, provider |-> "__anonymous", user_info |-> NoUserInfo ]

\* no Credentials value: before authenticate is called
NoCredentials == [ data |-> NULL, provider |-> "", user_info |-> NoUserInfo ]

AdminToken == "ADMIN"
CredentialInputs ==
  { usernamePassword("alice", "pw", Undefined), admin(AdminToken),
    anonymous }

\* no constructor was called yet
NoBuilt == [ctor |-> "", args |-> << >>, value |-> NoCredentials]

\* ----------------------------------------------------------------- server
\* what the authentication endpoint can answer to POST /auth (refresh)
\* on success: an access token and the time it lives, in milliseconds
RefreshBodies == { [token |-> "a1", life |-> 20000],
                   [token |-> "a2", life |-> 10000] }
ErrorStatuses == {401}

\* thrown values: AuthError{status} (statusText and body travel with the
\* status), a rejected fetch, and a rejected response.json()
AuthError(status) == [name |-> "AuthError", status |-> status]
FetchError == [name |-> "FetchError", status |-> 0]
JsonError == [name |-> "SyntaxError", status |-> 0]
ConfigurationError == [name |-> "Error", status |-> 0]
NoError == [name |-> "", status |-> 0]
RefreshErrors == {AuthError(s) : s \in ErrorStatuses} \cup {FetchError}

\* what an authErrorHandler invocation can do
HandlerOutcomes == {"true", "false", "undefined", "throws"}

\* ------------------------------------------------------------------ state
VARIABLES
  user,        \* the User object
  auth,        \* the authenticate call: state ("none", "pending", "done",
               \* "failed"), arguments, error, answer of the server, and
               \* the properties it assigned to the credentials object
  network,     \* the requests handed to fetch: how many to each endpoint
               \* ("authenticate", "refresh", "revoke"), and the last one
  config,      \* the GraphQLConfig: state, fields, error of create
  calls,       \* every refreshToken invocation, in order of invocation
  obtained,    \* the AccessTokens that refreshAccessToken returned to the
               \* config: the one of create and the latest one, the
               \* answer of the server the latest one was made from, and
               \* raced: one of them was written while the request of
               \* another invocation was in flight
  now,         \* Date.now()
  revoking,    \* revoke requests of logOut in flight
  logOuts,     \* logOut invocations: how many were invoked, resolved and
               \* rejected
  built,       \* the Credentials value a constructor returned last, with
               \* the constructor and its arguments
  limit,       \* how many refreshToken invocations a behaviour is followed
               \* for: the bound on Len(calls) of the specification
  link,        \* the HTTP operation in the retry link of the client that
               \* createApolloClient built: state, failures so far, the
               \* refreshToken invocation retryIf awaits, its decision, the
               \* authorization header the operation went out with, and the
               \* token the awaited refresh wrote
  helper       \* the RealmHelper the application creates alongside the
               \* GraphQLConfig, from the same arguments: state ("absent"
               \* when it creates none), the closure variables of its
               \* constructor, its endpoints, the requests it handed to
               \* fetch and the timers of its refresh closure

vars == << user, auth, network, config, calls, obtained, now,
           revoking, logOuts, built, limit, helper, link >>

\* no request was handed to fetch yet
NoRequest ==
  [op |-> NULL, token |-> NULL, path |-> << >>, authorization |-> NULL]

NoUser ==
  [ exists |-> FALSE, identity |-> NULL, isAdmin |-> FALSE,
    server |-> NoServer, token |-> NULL, isTokenUser |-> FALSE ]

\* new User(init)
User(identity, isAdmin, server, token) ==
  [ exists |-> TRUE, identity |-> identity, isAdmin |-> isAdmin,
    server |-> server, token |-> token, isTokenUser |-> FALSE ]

\* no answer of the server yet
NoAnswer ==
  [kind |-> "none", status |-> 0, token |-> NULL, expires |-> 0,
   json |-> FALSE]

\* a URI: scheme, host and the segments of its path; a segment is a string,
\* and a string is the sequence of its pieces, a slash being a piece
NoEndpoint == [scheme |-> "", host |-> "", path |-> << >>]

\* state: "none", "creating" (initial refreshAccessToken in flight),
\* "created", "failed" (create rejected, with error); answer is what the
\* server answered to the request of create, isQueryBasedSync the argument
\* of create
NoConfig ==
  [ state |-> "none", authErrorHandler |-> FALSE, realmPath |-> << >>,
    isQueryBasedSync |-> FALSE,
    token |-> NULL, error |-> NoError, answer |-> NoAnswer,
    httpEndpoint |-> NoEndpoint, webSocketEndpoint |-> NoEndpoint ]

\* no operation was executed on the client yet.
\*   state    "idle", "sent" (through authLink, to httpLink), "deciding"
\*            (retryIf awaits refreshToken), "decided" (retryIf returned),
\*            "hung" (retryIf rejected), "failed" (no attempt left),
\*            "completed"
\*   count    the failures of the operation so far
\*   status   error.result.status of the last failure, 0 without a result
NoOperation ==
  [ state |-> "idle", count |-> 0, status |-> 0, call |-> 0,
    decision |-> "none", authorization |-> NULL, written |-> NULL ]

\* no RealmHelper yet; input is config.realmPath as the application wrote it
NoHelper ==
  [ state |-> "none", input |-> << >>, authErrorHandler |-> FALSE,
    realmPath |-> << >>, token |-> NULL, requests |-> << >>,
    timers |-> << >>,
    httpEndpoint |-> NoEndpoint, webSocketEndpoint |-> NoEndpoint ]

\* the application uses GraphQLConfig alone
AbsentHelper == [NoHelper EXCEPT !.state = "absent"]

\* realmPath argument of create, as path segments: "/~/test"
RealmPathInputs == { <<"~", "test">> }

\* the request headers the model distinguishes
HeaderNames == {"accept", "authorization"}
NoHeaders == [h \in HeaderNames |-> NULL]
HeaderInputs ==
  { NoHeaders, [NoHeaders EXCEPT !["accept"] = "json"],
    [NoHeaders EXCEPT !["authorization"] = "stale"] }

Init ==
  /\ user = NoUser
  /\ auth = [ state |-> "none", credentials |-> NoCredentials,
              server |-> NoServer, error |-> NoError,
              answer |-> NoAnswer,
              assigned |-> {} ]
  /\ network = [ authenticate |-> 0, refresh |-> 0, revoke |-> 0,
                 last |-> NoRequest ]
  /\ config = NoConfig
  /\ calls = << >>
  /\ obtained = [ initial |-> NoAccessToken, latest |-> NoAccessToken,
                  from |-> NoAnswer, raced |-> FALSE ]
  /\ now = 0
  /\ revoking = 0
  /\ logOuts = [invoked |-> 0, resolved |-> 0, rejected |-> 0]
  /\ built = NoBuilt
  /\ limit = MaxCalls
  /\ helper = AbsentHelper
  /\ link = NoOperation

\* ------------------------------------------------------------- helpers
Max(a, b) == IF a >= b THEN a ELSE b

\* a create that sends the path as the application wrote it
ReplaceRootNever(path, identity) == path

\* realmPath.replace('/~/', `/${user.identity}/`): the first "~" segment
\* that another segment follows is replaced by the identity
RECURSIVE ReplaceRoot(_, _)
ReplaceRoot(path, identity) ==
  IF Len(path) < 2 THEN path
  ELSE IF Head(path) = "~" THEN << identity >> \o Tail(path)
  ELSE << Head(path) >> \o ReplaceRoot(Tail(path), identity)

\* a create that leaves the path of a query based sync alone
PartialPathIgnored(path, identity) == path

\* `${realmPath}/__partial/${user.identity}/graphql-client`
PartialPath(path, identity) ==
  path \o << "__partial", identity, "graphql-client" >>

\* the realmPath string of path segments: "/u1/test" for << "u1", "test" >>
RECURSIVE PathString(_)
PathString(path) ==
  IF path = << >> THEN << >>
  ELSE << "/", Head(path) >> \o PathString(Tail(path))

\* an encoding that leaves the slashes of a segment alone
URIEncodeNothing(str) == str

\* URI.encode(string): of the pieces the model distinguishes the slash is
\* the one that is escaped
URIEncode(str) ==
  [i \in 1..Len(str) |-> IF str[i] = "/" THEN "%2F" ELSE str[i]]

\* new URI(server).segmentCoded(v): the path becomes the encoded segments
segmentCoded(server, v) ==
  [ scheme |-> server.scheme, host |-> server.host,
    path |-> [i \in 1..Len(v) |-> URIEncode(v[i])] ]

\* a switch whose default case is the secure scheme
subscriptionSchemeDefault(scheme) ==
  IF scheme = "http" THEN "ws" ELSE "wss"

\* the switch on graphQLEndpoint.scheme(); NULL where it throws
subscriptionScheme(scheme) ==
  CASE scheme = "http" -> "ws"
    [] scheme = "https" -> "wss"
    [] OTHER -> NULL

\* a request handed to AuthenticationHelper.fetch: the endpoint, the token
\* in its body, the realm path in its body and its authorization header,
\* which revoke adds to postHeaders
Request(op, token, path) ==
  [ op |-> op, token |-> token, path |-> path,
    authorization |-> IF op = "revoke" THEN token ELSE NULL ]

\* AuthenticationHelper.fetch(uri, options): the request goes out
Send(net, request) ==
  [net EXCEPT ![request.op] = @ + 1, !.last = request]


\* responses of the server: a status with the body fields the code reads
\* (json: response.json() resolves), a status with a body that is no JSON
\* document (response.json() rejects), or no response at all (fetch rejects)
Response(status, token, expires) ==
  [kind |-> "response", status |-> status, token |-> token,
   expires |-> expires, json |-> TRUE]
NotJson(status) ==
  [kind |-> "response", status |-> status, token |-> NULL,
   expires |-> 0, json |-> FALSE]
NoResponse ==
  [kind |-> "failure", status |-> 0, token |-> NULL, expires |-> 0,
   json |-> FALSE]

\* the status of an answer that carries an error page instead of JSON
GatewayStatuses == {502}

\* answers to a refresh request received at time t; expires is in seconds
RefreshResponses(t) ==
  { Response(200, b.token, (t + b.life) \div 1000) : b \in RefreshBodies }
  \cup { Response(st, NULL, 0) : st \in ErrorStatuses }
  \cup { NoResponse }

\* answers to the refresh request of create: those, or an error page
CreateResponses(t) ==
  RefreshResponses(t) \cup { NotJson(st) : st \in GatewayStatuses }

\* answers to a refresh request of the refresh loop received at time t: the
\* loop is explored with what the server answers, a fetch that rejects is
\* explored for authenticate, create and logOut
LoopResponses(t) == RefreshResponses(t) \ { NoResponse }

\* answers to an authenticate request: refresh_token.token and
\* token_data.identity travel in the token and the status fields below
AuthenticateResponses ==
  { Response(200, "r1", 0) } \cup { Response(st, NULL, 0) : st \in ErrorStatuses }
  \cup { NotJson(st) : st \in GatewayStatuses }
  \cup { NoResponse }

\* answers to a revoke request
RevokeResponses ==
  { Response(200, NULL, 0) } \cup { Response(st, NULL, 0) : st \in ErrorStatuses }
  \cup { NotJson(st) : st \in GatewayStatuses }
  \cup { NoResponse }

\* ------------------------------------------------- AuthenticationHelper
\* authUri.scheme() !== 'http' && authUri.scheme() !== 'https'
BadScheme(server) == server.scheme # "http" /\ server.scheme # "https"

\* an authenticate that does not mark the admin user as a token user
authenticateUnmarked(credentials, server) ==
  IF BadScheme(server)
    THEN [kind |-> "throw", user |-> NoUser]
  ELSE IF credentials.provider = "__anonymous"
    THEN [kind |-> "return", user |-> User(NULL, FALSE, server, NULL)]
  ELSE IF credentials.provider = "__admin"
    THEN [kind |-> "return",
          user |-> User("__admin", TRUE, server, credentials.data)]
  ELSE [kind |-> "fetch", user |-> NoUser]

\* an authenticate that checks the scheme after the two short-circuits
authenticateSchemeLast(credentials, server) ==
  IF credentials.provider = "__anonymous"
    THEN [kind |-> "return", user |-> User(NULL, FALSE, server, NULL)]
  ELSE IF credentials.provider = "__admin"
    THEN [kind |-> "return",
          user |-> [User("__admin", TRUE, server, credentials.data)
                      EXCEPT !.isTokenUser = TRUE]]
  ELSE IF BadScheme(server)
    THEN [kind |-> "throw", user |-> NoUser]
  ELSE [kind |-> "fetch", user |-> NoUser]

\* authenticate up to its first await: what it throws or returns without a
\* request, or the request it hands to fetch
authenticate(credentials, server) ==
  IF BadScheme(server)
    THEN [kind |-> "throw", user |-> NoUser]
  ELSE IF credentials.provider = "__anonymous"
    THEN [kind |-> "return", user |-> User(NULL, FALSE, server, NULL)]
  ELSE IF credentials.provider = "__admin"
    THEN [kind |-> "return",
          user |-> [User("__admin", TRUE, server, credentials.data)
                      EXCEPT !.isTokenUser = TRUE]]
  ELSE [kind |-> "fetch", user |-> NoUser]

\* the own properties authenticate assigns to the credentials object it
\* was given: (credentials as any).app_id = '' on the way to the request
authenticateAssigns(credentials, server) ==
  IF authenticate(credentials, server).kind = "fetch"
    THEN { << "app_id", "" >> }
    ELSE {}

\* authenticate after fetch: response.json() is awaited before the status
\* is looked at; the user built from a 200 body, or the error
authenticateResult(response, server) ==
  IF response.kind = "failure"
    THEN [kind |-> "throw", error |-> FetchError, user |-> NoUser]
  ELSE IF ~response.json
    THEN [kind |-> "throw", error |-> JsonError, user |-> NoUser]
  ELSE IF response.status # 200
    THEN [kind |-> "throw", error |-> AuthError(response.status),
          user |-> NoUser]
  ELSE [kind |-> "return", error |-> NoError,
        user |-> User("u1", FALSE, server, response.token)]

\* a refreshAccessToken without the short-circuit for the anonymous user
refreshAccessTokenNoAnonymous(u, realmPath) ==
  IF ~ServerSet(u.server)
    THEN [kind |-> "throw", value |-> AccessToken(NULL, NullExpires)]
  ELSE IF u.isTokenUser
    THEN [kind |-> "return", value |-> AccessToken(u.token, NullExpires)]
  ELSE [kind |-> "fetch", value |-> AccessToken(NULL, NullExpires)]

\* a refreshAccessToken that looks at the server when it needs it
refreshAccessTokenServerLast(u, realmPath) ==
  IF u.identity = NULL /\ u.token = NULL
    THEN [kind |-> "return", value |-> AccessToken(NULL, NullExpires)]
  ELSE IF u.isTokenUser
    THEN [kind |-> "return", value |-> AccessToken(u.token, NullExpires)]
  ELSE IF ~ServerSet(u.server)
    THEN [kind |-> "throw", value |-> AccessToken(NULL, NullExpires)]
  ELSE [kind |-> "fetch", value |-> AccessToken(NULL, NullExpires)]

\* refreshAccessToken up to its first await
refreshAccessToken(u, realmPath) ==
  IF ~ServerSet(u.server)
    THEN [kind |-> "throw", value |-> AccessToken(NULL, NullExpires)]
  ELSE IF u.identity = NULL /\ u.token = NULL
    THEN [kind |-> "return", value |-> AccessToken(NULL, NullExpires)]
  ELSE IF u.isTokenUser
    THEN [kind |-> "return", value |-> AccessToken(u.token, NullExpires)]
  ELSE [kind |-> "fetch", value |-> AccessToken(NULL, NullExpires)]

\* a refreshAccessToken that takes every answer for a success
refreshAccessTokenResultLenient(response) ==
  IF response.kind = "failure"
    THEN [kind |-> "throw", error |-> FetchError,
          value |-> AccessToken(NULL, NullExpires)]
  ELSE IF ~response.json
    THEN [kind |-> "throw", error |-> JsonError,
          value |-> AccessToken(NULL, NullExpires)]
  ELSE [kind |-> "return", error |-> NoError,
        value |-> AccessToken(response.token, response.expires * 1000)]

\* a refreshAccessToken that takes expires for a lifetime from now on
refreshAccessTokenResultRelative(response) ==
  IF response.kind = "failure"
    THEN [kind |-> "throw", error |-> FetchError,
          value |-> AccessToken(NULL, NullExpires)]
  ELSE IF ~response.json
    THEN [kind |-> "throw", error |-> JsonError,
          value |-> AccessToken(NULL, NullExpires)]
  ELSE IF response.status # 200
    THEN [kind |-> "throw", error |-> AuthError(response.status),
          value |-> AccessToken(NULL, NullExpires)]
  ELSE [kind |-> "return", error |-> NoError,
        value |-> AccessToken(response.token, now + response.expires * 1000)]

\* refreshAccessToken after fetch: response.json() is awaited before the
\* status is looked at
refreshAccessTokenResult(response) ==
  IF response.kind = "failure"
    THEN [kind |-> "throw", error |-> FetchError,
          value |-> AccessToken(NULL, NullExpires)]
  ELSE IF ~response.json
    THEN [kind |-> "throw", error |-> JsonError,
          value |-> AccessToken(NULL, NullExpires)]
  ELSE IF response.status # 200
    THEN [kind |-> "throw", error |-> AuthError(response.status),
          value |-> AccessToken(NULL, NullExpires)]
  ELSE [kind |-> "return", error |-> NoError,
        value |-> AccessToken(response.token, response.expires * 1000)]

\* revoke up to its first await
revoke(u) ==
  IF ~ServerSet(u.server) THEN "throw"
  ELSE IF u.isTokenUser THEN "return"
  ELSE "fetch"

\* revoke after fetch: the error it throws, NoError when it returns; the
\* body is read for a status other than 200 only
revokeResult(response) ==
  IF response.kind = "failure" THEN FetchError
  ELSE IF response.status # 200
    THEN IF response.json THEN AuthError(response.status) ELSE JsonError
  ELSE NoError

\* a logOut without the try/catch around revoke
logOutUncaught(u, thrown) ==
  IF thrown # NoError
    THEN [result |-> "rejected", token |-> u.token]
    ELSE [result |-> "resolved", token |-> NULL]

\* logOut once revoke has settled: whatever revoke threw is swallowed and
\* this.token = null
logOut(u, thrown) == [result |-> "resolved", token |-> NULL]

\* the partial User objects the application builds itself: a server that
\* authenticate would have refused, or none at all
UserInits ==
  { User("u1", FALSE, [scheme |-> "HTTP", host |-> "h:9080"], "r1"),
    [User("__admin", TRUE, [scheme |-> "HTTP", host |-> "h:9080"], AdminToken)
       EXCEPT !.isTokenUser = TRUE],
    User("u1", FALSE, NoServer, "r1"),
    User(NULL, FALSE, NoServer, NULL),
    [User("__admin", TRUE, NoServer, AdminToken)
       EXCEPT !.isTokenUser = TRUE] }

\* new User(init): Object.assign(this, init)
NewUser(init) ==
  /\ ~user.exists
  /\ auth.state = "none"
  /\ user' = init
  /\ UNCHANGED << auth, network, config, calls, obtained, now, revoking,
                  logOuts >>
  /\ UNCHANGED << built, limit, helper, link >>

\* User.authenticate(credentials, server)
Authenticate(credentials, server) ==
  /\ auth.state = "none"
  /\ ~user.exists
  /\ LET r == authenticate(credentials, server) IN
       /\ auth' = [ state |-> CASE r.kind = "throw" -> "failed"
                              [] r.kind = "return" -> "done"
                              [] OTHER -> "pending",
                    credentials |-> credentials,
                    server |-> server,
                    error |-> IF r.kind = "throw" THEN ConfigurationError
                              ELSE NoError,
                    answer |-> NoAnswer,
                    assigned |-> authenticateAssigns(credentials, server) ]
       /\ user' = r.user
       /\ network' = IF r.kind = "fetch"
                       THEN Send(network, Request("authenticate", credentials.data, << >>))
                       ELSE network
  /\ UNCHANGED << config, calls, obtained, now, revoking,
                  logOuts >>
  /\ UNCHANGED << built, limit, helper, link >>

\* the answer to the authenticate request arrives
AuthenticateResponse(response) ==
  /\ auth.state = "pending"
  /\ LET r == authenticateResult(response, auth.server) IN
       /\ auth' = [auth EXCEPT !.state = IF r.kind = "return" THEN "done"
                                         ELSE "failed",
                               !.error = r.error,
                               !.answer = response]
       /\ user' = r.user
  /\ UNCHANGED << network, config, calls, obtained, now,
                  revoking, logOuts >>
  /\ UNCHANGED << built, limit, helper, link >>

\* logOut completes: revoke returned or threw
LogOutSettles(invoked, thrown) ==
  LET r == logOut(user, thrown) IN
  /\ user' = [user EXCEPT !.token = r.token]
  /\ logOuts' = [logOuts EXCEPT
                   !.invoked = invoked,
                   !.resolved = IF r.result = "resolved" THEN @ + 1 ELSE @,
                   !.rejected = IF r.result = "rejected" THEN @ + 1 ELSE @]

\* a logOut that clears the token before it awaits revoke
UserClearedFirst(u) == [u EXCEPT !.token = NULL]

\* the user while logOut awaits revoke: this.token = null comes after the
\* try/catch
UserWhileRevoking(u) == u

\* User.logOut(): the revoke call up to its await; without a request
\* logOut runs to its end
LogOut ==
  /\ user.exists
  /\ logOuts.invoked < MaxLogOuts
  /\ CASE revoke(user) = "fetch" ->
            /\ network' = Send(network, Request("revoke", user.token, << >>))
            /\ revoking' = revoking + 1
            /\ logOuts' = [logOuts EXCEPT !.invoked = @ + 1]
            /\ user' = UserWhileRevoking(user)
       [] revoke(user) = "throw" ->
            /\ LogOutSettles(logOuts.invoked + 1, ConfigurationError)
            /\ UNCHANGED << network, revoking >>
       [] OTHER ->
            /\ LogOutSettles(logOuts.invoked + 1, NoError)
            /\ UNCHANGED << network, revoking >>
  /\ UNCHANGED << auth, config, calls, obtained, now >>
  /\ UNCHANGED << built, limit, helper, link >>

\* the revoke request completes or fails, and logOut runs to its end
RevokeResponse(response) ==
  /\ revoking > 0
  /\ revoking' = revoking - 1
  /\ LogOutSettles(logOuts.invoked, revokeResult(response))
  /\ UNCHANGED << auth, network, config, calls, obtained, now >>
  /\ UNCHANGED << built, limit, helper, link >>

\* ---------------------------------------------------------- GraphQLConfig
\* a refreshToken(afterDelay, shouldRetry) invocation made at time t.
\*   kind     who invoked it: "first" (the constructor), "next" (the try
\*            branch, after a success), "retry" (the catch branch),
\*            "forced" (the application or the retry link)
\*   by       the invocation that made this one, 0 for "first" and "forced"
\*   due      setTimeout runs a negative delay as soon as it can
\*   pc       "delay" (awaiting this.delay), "request" (awaiting
\*            refreshAccessToken), "retrying" (returned the promise of its
\*            retry), "done"
\*   result   of the returned promise: "pending", "true", "false",
\*            "rejected"
\*   caught   the error the catch branch caught, NoError before
\*   reported the errors this invocation passed to authErrorHandler
\*   verdict  what the handler did: "none" (not invoked), "true",
\*            "falsy" (returned false or undefined), "threw"
Call(afterDelay, shouldRetry, kind, by, t) ==
  [ afterDelay |-> afterDelay, due |-> t + Max(afterDelay, 0),
    shouldRetry |-> shouldRetry, kind |-> kind, by |-> by,
    pc |-> "delay", result |-> "pending", caught |-> NoError,
    reported |-> << >>, verdict |-> "none" ]

\* a retry whose promise is not returned to its caller
ReturnsNothing(call) == 0

\* the invocation whose promise settles with this one's: the caller of
\* `return this.refreshToken(3000)`, or 0
Returns(call) == IF call.kind = "retry" THEN call.by ELSE 0

\* what an authErrorHandler invocation leaves behind
Verdict(outcome) ==
  CASE outcome = "true" -> "true"
    [] outcome = "throws" -> "threw"
    [] OTHER -> "falsy"

\* an invocation whose promise settles while its continuation goes on
SettleRunningOn(cs, c, r) == [cs EXCEPT ![c].result = r]

\* a promise settles, and with it every promise that returned it: the
\* invocation has run to its end
RECURSIVE Settle(_, _, _)
Settle(cs, c, r) ==
  LET cs1 == [cs EXCEPT ![c].result = r, ![c].pc = "done"] IN
  IF Returns(cs[c]) = 0 THEN cs1 ELSE Settle(cs1, Returns(cs[c]), r)

\* a refreshToken without the logged-out check
UserNeverLoggedOut(u) == FALSE

\* if (!this.user.token) return false
UserLoggedOut(u) == ~Truthy(u.token)

\* a refresh that waits until the token has expired
RefreshDelayAtExpiry(expires, t) == ToNumber(expires) - t

\* result.expires - Date.now() - 10000
RefreshDelay(expires, t) == ToNumber(expires) - t - RefreshEarly

\* a retry delay that doubles with every retry
RetryDelayDoubling(call) ==
  IF call.kind = "retry" THEN 2 * call.afterDelay ELSE RetryDelay

\* the delay of the retry that follows a failed invocation
RetryDelayAfter(call) == RetryDelay

\* a handler that is only asked when a retry is still possible
HandlerInvokedWhenRetrying(hasHandler, shouldRetry) ==
  hasHandler /\ shouldRetry

\* if (this.authErrorHandler): is the handler invoked for a failure
HandlerInvoked(hasHandler, shouldRetry) == hasHandler

\* a retry decision that ignores what the handler returned
ShouldRetryIgnoringHandler(hasHandler, outcome, shouldRetry) == shouldRetry

\* a retry decision that takes the handler's return value as "retry"
ShouldRetryWhenHandlerTrue(hasHandler, outcome, shouldRetry) ==
  IF hasHandler THEN outcome = "true" /\ shouldRetry ELSE shouldRetry

\* shouldRetry = !this.authErrorHandler(e) && shouldRetry
ShouldRetry(hasHandler, outcome, shouldRetry) ==
  IF hasHandler THEN outcome # "true" /\ shouldRetry ELSE shouldRetry

\* a configuration that keeps the token that expires later
WrittenTokenExpiringLater(accessToken) ==
  IF ToNumber(accessToken.expires) >= ToNumber(obtained.latest.expires)
    THEN accessToken.token
    ELSE config.token

\* this.token = result.token
WrittenToken(accessToken) == accessToken.token

\* a connectionParams that captured the token when it was created
connectionParamsAtCreation(cfg) ==
  IF Truthy(obtained.initial.token)
    THEN { << "token", obtained.initial.token >> }
    ELSE {}

\* connectionParams(): { token: this.token } or {}
connectionParams(cfg) ==
  IF Truthy(cfg.token) THEN { << "token", cfg.token >> } ELSE {}

\* authLink: the headers of the request after setContext merged the result
authLink(cfg, headers) ==
  IF Truthy(cfg.token)
    THEN [headers EXCEPT !["authorization"] = cfg.token]
    ELSE headers

\* a refreshToken that stores the access token in the user as well
UserHoldingAccessToken(u, accessToken) ==
  [u EXCEPT !.token = accessToken.token]

\* this.user after the try branch of refreshToken: the field is read
\* (this.user.token, and by refreshAccessToken), never assigned to
UserAfterRefresh(u, accessToken) == u

\* a try branch that writes the token and schedules no successor
RefreshSucceededOnce(c, accessToken, answer) ==
  /\ user' = UserAfterRefresh(user, accessToken)
  /\ config' = [config EXCEPT !.token = accessToken.token]
  /\ obtained' = [obtained EXCEPT !.latest = accessToken, !.from = answer]
  /\ calls' = Settle(calls, c, "true")

\* the try branch of refreshToken: invocation c obtained accessToken, made
\* from the answer of the server (NoAnswer when no request was made)
RefreshSucceeded(c, accessToken, answer) ==
  /\ Len(calls) < limit
  /\ user' = UserAfterRefresh(user, accessToken)
  /\ config' = [config EXCEPT !.token = WrittenToken(accessToken)]
  /\ obtained' = [obtained EXCEPT
                    !.latest = accessToken, !.from = answer,
                    !.raced = @ \/ \E d \in 1..Len(calls) :
                                     d # c /\ calls[d].pc = "request"]
  /\ calls' = Append(Settle(calls, c, "true"),
                     Call(RefreshDelay(accessToken.expires, now), TRUE,
                          "next", c, now))

\* the catch branch of refreshToken: invocation c caught error e; outcome
\* is what the handler does when it is invoked
RefreshFailed(c, e, outcome) ==
  LET invoked == HandlerInvoked(config.authErrorHandler, calls[c].shouldRetry)
      retry == ShouldRetry(config.authErrorHandler, outcome,
                           calls[c].shouldRetry)
      cs == [calls EXCEPT
               ![c].caught = e,
               ![c].reported = IF invoked THEN << e >> ELSE << >>,
               ![c].verdict = IF invoked THEN Verdict(outcome) ELSE "none"]
  IN
  /\ ~invoked => outcome = "undefined"
  /\ IF invoked /\ outcome = "throws"
       THEN calls' = Settle(cs, c, "rejected")
     ELSE IF retry
       THEN /\ Len(calls) < limit
            /\ calls' = Append([cs EXCEPT ![c].pc = "retrying"],
                               Call(RetryDelayAfter(calls[c]), TRUE, "retry",
                                    c, now))
     ELSE calls' = Settle(cs, c, "false")
  /\ UNCHANGED << user, config, obtained >>

\* the constructor: token, first refresh, endpoints; when it throws on the
\* scheme the object is not handed out, but its token is written and its
\* first refresh is scheduled
Construct(cfg, accessToken) ==
  /\ obtained' = [ initial |-> accessToken, latest |-> accessToken,
                   from |-> cfg.answer, raced |-> FALSE ]
  /\ calls' = IF TruthyExpires(accessToken.expires)
                THEN Append(calls,
                            Call(RefreshDelay(accessToken.expires, now),
                                 TRUE, "first", 0, now))
                ELSE calls
  /\ LET graphQLEndpoint ==
           segmentCoded(user.server,
                        << << "graphql" >>, PathString(cfg.realmPath) >>)
     IN
     config' = IF subscriptionScheme(graphQLEndpoint.scheme) = NULL
                 THEN [cfg EXCEPT !.state = "failed",
                                  !.token = accessToken.token,
                                  !.httpEndpoint = graphQLEndpoint,
                                  !.error = ConfigurationError]
                 ELSE [cfg EXCEPT
                         !.state = "created",
                         !.token = accessToken.token,
                         !.httpEndpoint = graphQLEndpoint,
                         !.webSocketEndpoint =
                           [graphQLEndpoint EXCEPT
                              !.scheme = subscriptionScheme(@)]]

\* ------------------------------------------------------------ RealmHelper
\* a timer of the refresh closure: setTimeout(async () => ..., afterDelay)
\* set at time t; pc is "delay", "request" (awaiting refreshAccessToken) or
\* "done"; reported are the errors its callback passed to authErrorHandler
Timer(afterDelay, t) ==
  [ afterDelay |-> afterDelay, due |-> t + Max(afterDelay, 0),
    pc |-> "delay", reported |-> << >> ]

\* refresh(afterDelay): the closure sets its timer
refresh(h, afterDelay, t) ==
  [h EXCEPT !.timers = Append(@, Timer(afterDelay, t))]

\* a catch branch that retries whatever the handler returned
helperRetriesAlways(hasHandler, outcome) == TRUE

\* !authErrorHandler || !authErrorHandler(e)
helperRetries(hasHandler, outcome) ==
  ~hasHandler \/ outcome \in {"false", "undefined"}

\* the try branch of the closure: token = result.token, and the next refresh
helperSucceeded(h, c, accessToken, t) ==
  refresh([h EXCEPT !.token = accessToken.token, !.timers[c].pc = "done"],
          RefreshDelay(accessToken.expires, t), t)

\* the catch branch of the closure; a handler that throws ends the callback
helperFailed(h, c, e, outcome, t) ==
  LET h1 == [h EXCEPT
               !.timers[c].pc = "done",
               !.timers[c].reported =
                 IF h.authErrorHandler THEN << e >> ELSE << >>]
  IN
  IF h.authErrorHandler /\ outcome = "throws" THEN h1
  ELSE IF helperRetries(h.authErrorHandler, outcome)
    THEN refresh(h1, RetryDelay, t)
  ELSE h1

\* the constructor of RealmHelper: the closure variables, the first refresh,
\* the endpoints
RealmHelperConstruct(h, u, accessToken, t) ==
  LET realmPath == ReplaceRoot(h.input, u.identity)
      h1 == [h EXCEPT !.token = accessToken.token, !.realmPath = realmPath]
      h2 == IF TruthyExpires(accessToken.expires)
              THEN refresh(h1, RefreshDelay(accessToken.expires, t), t)
              ELSE h1
      grahpQLEndpoint ==
        segmentCoded(u.server, << << "graphql" >>, PathString(realmPath) >>)
  IN
  IF subscriptionScheme(grahpQLEndpoint.scheme) = NULL
    THEN [h2 EXCEPT !.state = "failed", !.httpEndpoint = grahpQLEndpoint]
    ELSE [h2 EXCEPT
            !.state = "created",
            !.httpEndpoint = grahpQLEndpoint,
            !.webSocketEndpoint =
              [grahpQLEndpoint EXCEPT !.scheme = subscriptionScheme(@)]]

\* RealmHelper.create(config) up to the await of refreshAccessToken, which
\* is handed config.realmPath
RealmHelperCreate(h, u, realmPath, hasHandler, t) ==
  LET h1 == [h EXCEPT !.input = realmPath, !.authErrorHandler = hasHandler]
      r == refreshAccessToken(u, realmPath)
  IN
  CASE r.kind = "throw" -> [h1 EXCEPT !.state = "failed"]
    [] r.kind = "return" -> RealmHelperConstruct(h1, u, r.value, t)
    [] OTHER ->
         [h1 EXCEPT !.state = "creating",
                    !.requests =
                      Append(@, Request("refresh", u.token, realmPath))]

\* the answer to the request of RealmHelper.create arrives
RealmHelperCreateResponse(h, u, response, t) ==
  LET r == refreshAccessTokenResult(response) IN
  IF r.kind = "throw"
    THEN [h EXCEPT !.state = "failed"]
    ELSE RealmHelperConstruct(h, u, r.value, t)

\* the callback of timer c runs up to the await of the request, or to its
\* end when no request is made
helperFire(h, u, c, outcome, t) ==
  IF ~Truthy(u.token)
    THEN [h EXCEPT !.timers[c].pc = "done"]
    ELSE LET r == refreshAccessToken(u, h.realmPath) IN
      CASE r.kind = "throw" -> helperFailed(h, c, ConfigurationError, outcome, t)
        [] r.kind = "return" -> helperSucceeded(h, c, r.value, t)
        [] OTHER ->
             [h EXCEPT !.timers[c].pc = "request",
                       !.requests =
                         Append(@, Request("refresh", u.token, h.realmPath))]

\* the answer to the request of timer c arrives
helperResponse(h, c, response, outcome, t) ==
  LET r == refreshAccessTokenResult(response) IN
  IF r.kind = "throw"
    THEN helperFailed(h, c, r.error, outcome, t)
    ELSE helperSucceeded(h, c, r.value, t)

\* connectionParams() of the helper: { token } or {}
helperConnectionParams(h) ==
  IF Truthy(h.token) THEN { << "token", h.token >> } ELSE {}

\* authLink of the helper: the headers after setContext merged the result
helperAuthLink(h, headers) ==
  IF Truthy(h.token)
    THEN [headers EXCEPT !["authorization"] = h.token]
    ELSE headers

\* the application creates its RealmHelper from the arguments of create
HelperCreates(realmPath, hasHandler) ==
  IF helper.state = "none"
    THEN helper' = RealmHelperCreate(helper, user, realmPath, hasHandler, now)
    ELSE UNCHANGED helper

\* the server answers the request of RealmHelper.create as it answers the
\* one of GraphQLConfig.create
HelperCreateAnswered(response) ==
  IF helper.state = "creating"
    THEN helper' = RealmHelperCreateResponse(helper, user, response, now)
    ELSE UNCHANGED helper

\* the event loop runs timer c of the helper when it is due
HelperTimerFires(c, outcome) ==
  IF /\ c \in 1..Len(helper.timers)
     /\ helper.timers[c].pc = "delay"
     /\ helper.timers[c].due <= now
    THEN helper' = helperFire(helper, user, c, outcome, now)
    ELSE UNCHANGED helper

\* the server answers the request of timer c of the helper, and the handler
\* does what it does for the GraphQLConfig
HelperAnswered(c, response, outcome) ==
  IF c \in 1..Len(helper.timers) /\ helper.timers[c].pc = "request"
    THEN helper' = helperResponse(helper, c, response, outcome, now)
    ELSE UNCHANGED helper

\* ---------------------------------------------------------- retry link
\* attempts: { max: 3 }
MaxAttempts == 3

\* the errors of an HTTP operation: a server error with its result, or a
\* network error without one
OperationErrors ==
  { [result |-> TRUE, status |-> 401], [result |-> TRUE, status |-> 500],
    [result |-> FALSE, status |-> 0] }

\* error && error.result && error.result.status === 401
retryIfRefreshes(error) == error.result /\ error.status = 401

\* what retryIf returns once the refreshToken it awaited has settled with
\* result: true, or the rejection of the awaited promise
retryIfReturns(result) ==
  IF result = "rejected" THEN "rejected" ELSE "true"

\* retryIf resumes in the step in which the refreshToken it awaits settles
RetryIfResumes ==
  IF /\ link.state = "deciding"
     /\ link.call \in 1..Len(calls')
     /\ calls'[link.call].result # "pending"
    THEN link' = [link EXCEPT
                    !.decision = retryIfReturns(calls'[link.call].result),
                    !.state = IF retryIfReturns(calls'[link.call].result)
                                   = "true"
                                THEN "decided" ELSE "hung",
                    !.written = IF calls'[link.call].result = "true"
                                  THEN config'.token ELSE NULL]
    ELSE UNCHANGED link

\* the application executes a query or mutation on the client: the
\* operation passes retryLink and authLink and goes out through httpLink
Execute ==
  /\ config.state = "created"
  /\ link.state = "idle"
  /\ link' = [link EXCEPT
                !.state = "sent",
                !.authorization = authLink(config, NoHeaders)["authorization"]]
  /\ UNCHANGED << user, auth, network, config, calls, obtained, now,
                  revoking, logOuts, built, limit, helper >>

\* the operation completes
OperationCompletes ==
  /\ link.state = "sent"
  /\ link' = [link EXCEPT !.state = "completed"]
  /\ UNCHANGED << user, auth, network, config, calls, obtained, now,
                  revoking, logOuts, built, limit, helper >>

\* the operation fails with error: the retry link asks retryIf while an
\* attempt is left, and retryIf runs up to its await or to its end
OperationFails(error) ==
  /\ link.state = "sent"
  /\ IF link.count + 1 >= MaxAttempts
       THEN /\ link' = [link EXCEPT !.state = "failed", !.count = @ + 1,
                                    !.status = error.status]
            /\ UNCHANGED calls
     ELSE IF retryIfRefreshes(error)
       THEN /\ Len(calls) < limit
            /\ calls' = Append(calls, Call(0, FALSE, "forced", 0, now))
            /\ link' = [link EXCEPT !.state = "deciding", !.count = @ + 1,
                                    !.status = error.status,
                                    !.call = Len(calls) + 1,
                                    !.decision = "none", !.written = NULL]
     ELSE /\ link' = [link EXCEPT !.state = "decided", !.count = @ + 1,
                                  !.status = error.status, !.call = 0,
                                  !.decision = "true", !.written = NULL]
          /\ UNCHANGED calls
  /\ UNCHANGED << user, auth, network, config, obtained, now,
                  revoking, logOuts, built, limit, helper >>

\* the delay of the retry link has passed: the operation goes through
\* authLink and httpLink again
Retry ==
  /\ link.state = "decided"
  /\ link.decision = "true"
  /\ link' = [link EXCEPT
                !.state = "sent",
                !.authorization = authLink(config, NoHeaders)["authorization"]]
  /\ UNCHANGED << user, auth, network, config, calls, obtained, now,
                  revoking, logOuts, built, limit, helper >>

\* GraphQLConfig.create(user, realmPath, authErrorHandler, isQueryBasedSync)
\* up to the await of refreshAccessToken
Create(realmPath, hasHandler, isQueryBasedSync) ==
  /\ user.exists
  /\ config.state = "none"
  /\ LET replaced == ReplaceRoot(realmPath, user.identity)
         path == IF isQueryBasedSync
                   THEN PartialPath(replaced, user.identity)
                   ELSE replaced
         cfg == [config EXCEPT !.authErrorHandler = hasHandler,
                               !.isQueryBasedSync = isQueryBasedSync,
                               !.realmPath = path]
         r == refreshAccessToken(user, path)
     IN
       CASE r.kind = "throw" ->
              /\ config' = [cfg EXCEPT !.state = "failed",
                                       !.error = ConfigurationError]
              /\ UNCHANGED << network, calls, obtained >>
         [] r.kind = "return" ->
              /\ Construct(cfg, r.value)
              /\ UNCHANGED network
         [] OTHER ->
              /\ config' = [cfg EXCEPT !.state = "creating"]
              /\ network' = Send(network, Request("refresh", user.token, path))
              /\ UNCHANGED << calls, obtained >>
  /\ HelperCreates(realmPath, hasHandler)
  /\ UNCHANGED << user, auth, now, revoking, logOuts >>
  /\ UNCHANGED << built, limit, link >>

\* the answer to the refresh request of create arrives
CreateResponse(response) ==
  /\ config.state = "creating"
  /\ LET r == refreshAccessTokenResult(response)
         cfg == [config EXCEPT !.answer = response]
     IN
       IF r.kind = "throw"
         THEN /\ config' = [cfg EXCEPT !.state = "failed", !.error = r.error]
              /\ UNCHANGED << calls, obtained >>
         ELSE Construct(cfg, r.value)
  /\ HelperCreateAnswered(response)
  /\ UNCHANGED << user, auth, network, now, revoking, logOuts >>
  /\ UNCHANGED << built, limit, link >>

\* refreshToken(afterDelay, shouldRetry) invoked by the application or by
\* retryIf of the retry link (afterDelay 0, shouldRetry false)
ForceRefresh(afterDelay, shouldRetry) ==
  /\ config.state = "created"
  /\ Len(calls) < limit
  /\ Cardinality({ c \in 1..Len(calls) : calls[c].kind = "forced" })
       < MaxForced
  /\ calls' = Append(calls, Call(afterDelay, shouldRetry, "forced", 0, now))
  /\ UNCHANGED << user, auth, network, config, obtained, now,
                  revoking, logOuts >>
  /\ UNCHANGED << built, limit, helper, link >>

\* the delay of invocation c has elapsed: refreshToken runs up to the
\* await of the request, or to its end when no request is made
FireTimer(c) ==
  /\ calls[c].pc = "delay"
  /\ calls[c].due <= now
  /\ IF UserLoggedOut(user)
       THEN /\ calls' = Settle(calls, c, "false")
            /\ HelperTimerFires(c, "undefined")
            /\ UNCHANGED << user, network, config, obtained >>
       ELSE LET r == refreshAccessToken(user, config.realmPath) IN
         CASE r.kind = "throw" ->
                /\ \E outcome \in HandlerOutcomes :
                     /\ RefreshFailed(c, ConfigurationError, outcome)
                     /\ HelperTimerFires(c, outcome)
                /\ UNCHANGED network
           [] r.kind = "return" ->
                /\ RefreshSucceeded(c, r.value, NoAnswer)
                /\ HelperTimerFires(c, "undefined")
                /\ UNCHANGED network
           [] OTHER ->
                /\ calls' = [calls EXCEPT ![c].pc = "request"]
                /\ network' = Send(network, Request("refresh", user.token,
                                             config.realmPath))
                /\ HelperTimerFires(c, "undefined")
                /\ UNCHANGED << user, config, obtained >>
  /\ RetryIfResumes
  /\ UNCHANGED << auth, now, revoking, logOuts >>
  /\ UNCHANGED << built, limit >>

\* the answer to the refresh request of invocation c arrives
RefreshResponse(c, response, outcome) ==
  /\ calls[c].pc = "request"
  /\ LET r == refreshAccessTokenResult(response) IN
       IF r.kind = "throw"
         THEN RefreshFailed(c, r.error, outcome)
         ELSE /\ outcome = "undefined"
              /\ RefreshSucceeded(c, r.value, response)
  /\ HelperAnswered(c, response, outcome)
  /\ RetryIfResumes
  /\ UNCHANGED << auth, network, now, revoking, logOuts >>
  /\ UNCHANGED << built, limit >>

\* --------------------------------------------------------------- time
\* the times at which a pending timer is due
NextTimes ==
  { calls[c].due : c \in { i \in 1..Len(calls) : calls[i].pc = "delay" } }

AdvanceTime ==
  /\ \E t \in NextTimes : t > now /\ t <= MaxNow /\ now' = t
  /\ UNCHANGED << user, auth, network, config, calls, obtained,
                  revoking, logOuts >>
  /\ UNCHANGED << built, limit, helper, link >>

\* -------------------------------------------------------- specification
ForcedDelays == {0}

Next ==
  \/ \E cr \in CredentialInputs, sv \in Servers : Authenticate(cr, sv)
  \/ \E init \in UserInits : NewUser(init)
  \/ \E rs \in AuthenticateResponses : AuthenticateResponse(rs)
  \/ LogOut
  \/ \E rs \in RevokeResponses : RevokeResponse(rs)
  \/ \E p \in RealmPathInputs, h \in BOOLEAN, q \in BOOLEAN : Create(p, h, q)
  \/ \E rs \in CreateResponses(now) : CreateResponse(rs)
  \/ \E d \in ForcedDelays, sr \in BOOLEAN : ForceRefresh(d, sr)
  \/ \E c \in 1..Len(calls) : FireTimer(c)
  \/ \E c \in 1..Len(calls), rs \in LoopResponses(now),
        o \in HandlerOutcomes : RefreshResponse(c, rs, o)
  \/ AdvanceTime

Spec == Init /\ [][Next]_vars

\* ------------------------------------------ create over servers and paths
\* GraphQLConfig.create for users of more servers and with more paths: the
\* rewriting of realmPath and the endpoints depend on nothing else
EndpointServers ==
  { [scheme |-> sc, host |-> h] :
      sc \in {"http", "https", "HTTP"}, h \in {"h:9080", "ros.example"} }

EndpointUsers ==
  UNION { { User("u1", FALSE, sv, "r1"),
            User(NULL, FALSE, sv, NULL),
            [User("__admin", TRUE, sv, AdminToken)
               EXCEPT !.isTokenUser = TRUE] } : sv \in EndpointServers }

\* "/~/test", "/test", "/~/a/~"
EndpointPaths == { <<"~", "test">>, <<"test">>, <<"~", "a", "~">> }

InitEndpoints ==
  /\ user \in EndpointUsers
  /\ auth = [ state |-> "none", credentials |-> NoCredentials,
              server |-> NoServer, error |-> NoError,
              answer |-> NoAnswer,
              assigned |-> {} ]
  /\ network = [ authenticate |-> 0, refresh |-> 0, revoke |-> 0,
                 last |-> NoRequest ]
  /\ config = NoConfig
  /\ calls = << >>
  /\ obtained = [ initial |-> NoAccessToken, latest |-> NoAccessToken,
                  from |-> NoAnswer, raced |-> FALSE ]
  /\ now = 0
  /\ revoking = 0
  /\ logOuts = [invoked |-> 0, resolved |-> 0, rejected |-> 0]
  /\ built = NoBuilt
  /\ limit = MaxCalls
  /\ helper = AbsentHelper
  /\ link = NoOperation

NextEndpoints ==
  \/ \E p \in EndpointPaths, h \in BOOLEAN, q \in BOOLEAN : Create(p, h, q)
  \/ \E rs \in CreateResponses(now) : CreateResponse(rs)

SpecEndpoints == InitEndpoints /\ [][NextEndpoints]_vars

\* ------------------------------------------------------------ one session
\* the refresh loop of one configuration of one authenticated user, followed
\* for one more invocation: a timer-driven and a forced refresh can both
\* succeed and both schedule their successor
SessionUser ==
  User("u1", FALSE, [scheme |-> "http", host |-> "h:9080"], "r1")

InitSession ==
  /\ user = SessionUser
  /\ auth = [ state |-> "none", credentials |-> NoCredentials,
              server |-> NoServer, error |-> NoError,
              answer |-> NoAnswer,
              assigned |-> {} ]
  /\ network = [ authenticate |-> 0, refresh |-> 0, revoke |-> 0,
                 last |-> NoRequest ]
  /\ config = NoConfig
  /\ calls = << >>
  /\ obtained = [ initial |-> NoAccessToken, latest |-> NoAccessToken,
                  from |-> NoAnswer, raced |-> FALSE ]
  /\ now = 0
  /\ revoking = 0
  /\ logOuts = [invoked |-> 0, resolved |-> 0, rejected |-> 0]
  /\ built = NoBuilt
  /\ limit = MaxSessionCalls
  /\ helper = AbsentHelper
  /\ link = NoOperation

NextSession ==
  \/ \E p \in RealmPathInputs : Create(p, FALSE, FALSE)
  \/ \E rs \in CreateResponses(now) : CreateResponse(rs)
  \/ \E d \in ForcedDelays, r \in BOOLEAN : ForceRefresh(d, r)
  \/ \E c \in 1..Len(calls) : FireTimer(c)
  \/ \E c \in 1..Len(calls), rs \in LoopResponses(now),
        o \in HandlerOutcomes : RefreshResponse(c, rs, o)
  \/ AdvanceTime
  \/ LogOut
  \/ \E rs \in RevokeResponses : RevokeResponse(rs)

SpecSession == InitSession /\ [][NextSession]_vars

\* --------------------------------------- one session, under fairness
\* the answers of a server that grants every refresh request
GrantingResponses(t) ==
  { rs \in RefreshResponses(t) : rs.kind = "response" /\ rs.status = 200 }

\* Date.now() reaches the expiry of the current access token: the clock
\* runs whether or not a timer is pending
TokenExpires ==
  /\ config.state = "created"
  /\ TruthyExpires(obtained.latest.expires)
  /\ now < obtained.latest.expires
  /\ obtained.latest.expires <= MaxNow
  /\ now' = obtained.latest.expires
  /\ UNCHANGED << user, auth, network, config, calls, obtained,
                  revoking, logOuts >>
  /\ UNCHANGED << built, limit, helper, link >>

\* the event loop runs every timer that is due, and every request that was
\* handed to fetch is answered (or times out)
TimersFire ==
  \A c \in 1..MaxSessionCalls :
    WF_vars(c \in 1..Len(calls) /\ FireTimer(c))

\* the answers to the requests of a refresh loop that is followed through a
\* logOut: the server issues one token or refuses
LogOutResponses(t) == { rs \in LoopResponses(t) : rs.token \in {NULL, "a1"} }

RequestsComplete ==
  \A c \in 1..MaxSessionCalls :
    WF_vars(c \in 1..Len(calls) /\
            \E rs \in LogOutResponses(now), o \in HandlerOutcomes :
              RefreshResponse(c, rs, o))

\* one session with its logOut: the application forces refreshes with the
\* default shouldRetry
NextLogOut ==
  \/ \E p \in RealmPathInputs : Create(p, FALSE, FALSE)
  \/ \E rs \in CreateResponses(now) : CreateResponse(rs)
  \/ \E d \in ForcedDelays : ForceRefresh(d, TRUE)
  \/ \E c \in 1..Len(calls) : FireTimer(c)
  \/ \E c \in 1..Len(calls), rs \in LogOutResponses(now),
        o \in HandlerOutcomes : RefreshResponse(c, rs, o)
  \/ AdvanceTime
  \/ LogOut
  \/ \E rs \in RevokeResponses : RevokeResponse(rs)

\* timers fire, requests complete and time passes
SpecLogOut ==
  /\ InitSession
  /\ [][NextLogOut]_vars
  /\ TimersFire
  /\ RequestsComplete
  /\ WF_vars(AdvanceTime)

\* the user stays logged in and the server grants every refresh request
NextGranted ==
  \/ \E p \in RealmPathInputs : Create(p, FALSE, FALSE)
  \/ \E rs \in GrantingResponses(now) : CreateResponse(rs)
  \/ \E d \in ForcedDelays, r \in BOOLEAN : ForceRefresh(d, r)
  \/ \E c \in 1..Len(calls) : FireTimer(c)
  \/ \E c \in 1..Len(calls), rs \in GrantingResponses(now) :
        RefreshResponse(c, rs, "undefined")
  \/ AdvanceTime
  \/ TokenExpires

SpecGranted ==
  /\ InitSession
  /\ [][NextGranted]_vars
  /\ TimersFire
  /\ \A c \in 1..MaxSessionCalls :
       WF_vars(c \in 1..Len(calls) /\
               \E rs \in GrantingResponses(now) :
                 RefreshResponse(c, rs, "undefined"))
  /\ WF_vars(AdvanceTime)

\* ------------------------------- a RealmHelper beside the GraphQLConfig
\* "/~/test" and "/test"
HelperPaths == { <<"~", "test">>, <<"test">> }

InitHelper ==
  /\ user = SessionUser
  /\ auth = [ state |-> "none", credentials |-> NoCredentials,
              server |-> NoServer, error |-> NoError,
              answer |-> NoAnswer,
              assigned |-> {} ]
  /\ network = [ authenticate |-> 0, refresh |-> 0, revoke |-> 0,
                 last |-> NoRequest ]
  /\ config = NoConfig
  /\ calls = << >>
  /\ obtained = [ initial |-> NoAccessToken, latest |-> NoAccessToken,
                  from |-> NoAnswer, raced |-> FALSE ]
  /\ now = 0
  /\ revoking = 0
  /\ logOuts = [invoked |-> 0, resolved |-> 0, rejected |-> 0]
  /\ built = NoBuilt
  /\ limit = MaxCalls
  /\ helper = NoHelper
  /\ link = NoOperation

\* one user, one handler and one server behind both objects; the
\* application forces no refresh
NextHelper ==
  \/ \E p \in HelperPaths, h \in BOOLEAN : Create(p, h, FALSE)
  \/ \E rs \in CreateResponses(now) : CreateResponse(rs)
  \/ \E c \in 1..Len(calls) : FireTimer(c)
  \/ \E c \in 1..Len(calls), rs \in LoopResponses(now),
        o \in HandlerOutcomes : RefreshResponse(c, rs, o)
  \/ AdvanceTime
  \/ LogOut
  \/ \E rs \in RevokeResponses : RevokeResponse(rs)

SpecHelper == InitHelper /\ [][NextHelper]_vars

\* ---------------------------------------- the client of one session
\* one HTTP operation on the client of one configuration
NextClient ==
  \/ \E p \in RealmPathInputs, h \in BOOLEAN : Create(p, h, FALSE)
  \/ \E rs \in CreateResponses(now) : CreateResponse(rs)
  \/ \E c \in 1..Len(calls) : FireTimer(c)
  \/ \E c \in 1..Len(calls), rs \in LoopResponses(now),
        o \in HandlerOutcomes : RefreshResponse(c, rs, o)
  \/ AdvanceTime
  \/ LogOut
  \/ \E rs \in RevokeResponses : RevokeResponse(rs)
  \/ Execute
  \/ OperationCompletes
  \/ \E e \in OperationErrors : OperationFails(e)
  \/ Retry

InitClient ==
  /\ user = SessionUser
  /\ auth = [ state |-> "none", credentials |-> NoCredentials,
              server |-> NoServer, error |-> NoError,
              answer |-> NoAnswer,
              assigned |-> {} ]
  /\ network = [ authenticate |-> 0, refresh |-> 0, revoke |-> 0,
                 last |-> NoRequest ]
  /\ config = NoConfig
  /\ calls = << >>
  /\ obtained = [ initial |-> NoAccessToken, latest |-> NoAccessToken,
                  from |-> NoAnswer, raced |-> FALSE ]
  /\ now = 0
  /\ revoking = 0
  /\ logOuts = [invoked |-> 0, resolved |-> 0, rejected |-> 0]
  /\ built = NoBuilt
  /\ limit = MaxCalls
  /\ helper = AbsentHelper
  /\ link = NoOperation

SpecClient == InitClient /\ [][NextClient]_vars

\* ------------------------------------------------ Credentials constructors
\* the strings handed to the constructors
CredentialStrings == {"alice", "pw", "t1", "t2"}

\* the userInfo arguments handed to Credentials.Custom
UserInfoInputs ==
  { NoUserInfo,
    [present |-> TRUE, register |-> FALSE, password |-> "pw"],
    [present |-> TRUE, register |-> TRUE, password |-> "t1"] }

\* the constructors that take one token
TokenConstructors == {"facebook", "google", "azureAD", "jwt", "admin"}

\* the argument lists explored for a constructor
ConstructorArgs(ctor) ==
  CASE ctor \in TokenConstructors ->
         { << t >> : t \in CredentialStrings }
    [] ctor = "usernamePassword" ->
         { << u, p, c >> : u \in CredentialStrings, p \in CredentialStrings,
                           c \in {"true", "false", Undefined} }
    [] ctor = "anonymous" -> { << >> }
    [] ctor = "Custom" ->
         { << p, t, i >> : p \in CredentialStrings, t \in CredentialStrings,
                           i \in UserInfoInputs }

Constructors == TokenConstructors \cup {"usernamePassword", "anonymous", "Custom"}

\* Credentials.<ctor>(...args)
Construction(ctor, args) ==
  CASE ctor = "facebook" -> facebook(args[1])
    [] ctor = "google" -> google(args[1])
    [] ctor = "azureAD" -> azureAD(args[1])
    [] ctor = "jwt" -> jwt(args[1])
    [] ctor = "admin" -> admin(args[1])
    [] ctor = "anonymous" -> anonymous
    [] ctor = "usernamePassword" -> usernamePassword(args[1], args[2], args[3])
    [] ctor = "Custom" -> Custom(args[1], args[2], args[3])

\* the application calls a constructor of Credentials
BuildCredentials(ctor, args) ==
  /\ built' = [ctor |-> ctor, args |-> args, value |-> Construction(ctor, args)]
  /\ UNCHANGED << user, auth, network, config, calls, obtained, now,
                  revoking, logOuts, limit, helper, link >>

NextCredentials ==
  \E ctor \in Constructors : \E args \in ConstructorArgs(ctor) :
    BuildCredentials(ctor, args)

SpecCredentials == Init /\ [][NextCredentials]_vars

\* ================================================================ claims
Calls == 1..Len(calls)

\* invocation c leaves its delay in this step: its continuation fires
Fires(c) == calls[c].pc = "delay" /\ calls'[c].pc # "delay"

\* invocation c catches an error in this step: its attempt fails
Fails(c) == calls[c].caught = NoError /\ calls'[c].caught # NoError

\* the invocations that invocation c made
MadeBy(c) == { d \in Calls : calls[d].by = c }

\* the invocations the configuration made itself
OwnCalls == { c \in Calls : calls[c].kind # "forced" }

\* C1: a refresh continuation that fires while user.token is null issues
\* no request, leaves the current access token alone, schedules no timer
\* and resolves false.
C1_LoggedOutContinuationStops ==
  [][ \A c \in Calls :
        (Fires(c) /\ user.token = NULL) =>
          /\ network' = network
          /\ config'.token = config.token
          /\ Len(calls') = Len(calls)
          /\ calls'[c].pc = "done"
          /\ calls'[c].result = "false" ]_vars

\* C1 happens: after logOut an invocation of the configuration's own chain
\* resolved false without having caught an error.
C1_Witness ==
  \E c \in OwnCalls :
    /\ user.exists /\ user.token = NULL /\ logOuts.invoked > 0
    /\ calls[c].pc = "done" /\ calls[c].result = "false"
    /\ calls[c].caught = NoError

\* C2: without an authErrorHandler, a failed timer-driven attempt schedules
\* exactly one retry, 3000 ms later, whatever the number of failures before
\* it; and a retry that fires while user.token is non-null makes a new
\* attempt.
C2_RetryEvery3000 ==
  [][ \A c \in OwnCalls :
        /\ (Fails(c) /\ ~config.authErrorHandler) =>
             /\ Len(calls') = Len(calls) + 1
             /\ calls'[c].pc = "retrying"
             /\ calls'[Len(calls')].kind = "retry"
             /\ calls'[Len(calls')].by = c
             /\ calls'[Len(calls')].afterDelay = 3000
             /\ calls'[Len(calls')].due = now + 3000
             /\ calls'[Len(calls')].pc = "delay"
        /\ (Fires(c) /\ calls[c].kind = "retry" /\ user.token # NULL) =>
             /\ calls'[c].pc = "request"
             /\ network'.refresh = network.refresh + 1 ]_vars

\* C2 happens: a retry of a retry is scheduled, and no handler was supplied.
C2_Witness ==
  /\ config.state = "created" /\ ~config.authErrorHandler
  /\ \E c, d \in Calls :
       /\ calls[c].kind = "retry" /\ calls[c].caught # NoError
       /\ calls[d].kind = "retry" /\ calls[d].by = c
       /\ calls[d].afterDelay = 3000

\* C3: an attempt, timer-driven or forced, whose failure the handler
\* answered with true schedules no retry, makes no further invocation and
\* resolves false.
C3_HandlerTrueIsFatal ==
  \A c \in Calls :
    calls[c].verdict = "true" =>
      /\ MadeBy(c) = {}
      /\ calls[c].pc = "done"
      /\ calls[c].result = "false"

\* C3 happens for a timer-driven and for a forced attempt.
C3_Witness ==
  \E c, d \in Calls :
    /\ calls[c].kind # "forced" /\ calls[c].verdict = "true"
    /\ calls[d].kind = "forced" /\ calls[d].verdict = "true"

C5_HandlerAlwaysInvoked ==
  config.authErrorHandler =>
    \A c \in Calls :
      /\ calls[c].caught # NoError => calls[c].reported = << calls[c].caught >>
      /\ calls[c].caught = NoError => calls[c].reported = << >>

\* C5 happens: a forced invocation with shouldRetry false failed and the
\* handler received its error.
C5_Witness ==
  \E c \in Calls :
    /\ calls[c].kind = "forced" /\ ~calls[c].shouldRetry
    /\ calls[c].caught # NoError
    /\ calls[c].reported = << calls[c].caught >>

\* the realm paths a refresh can be asked for
RefreshPaths == { ReplaceRoot(p, i) : p \in RealmPathInputs,
                                     i \in {NULL, "__admin", "u1"} }

\* C6: authenticate with admin credentials sends no request and returns a
\* user with isAdmin, identity '__admin' and the admin token; no refresh
\* request is ever sent for that user, and while the user holds that token
\* refreshAccessToken returns it with a null expiry.
C6_AdminNeverUsesNetwork ==
  auth.credentials.provider = "__admin" =>
    /\ network.authenticate = 0
    /\ network.refresh = 0
    /\ auth.state # "pending"
    /\ \A c \in Calls : calls[c].pc # "request"
    /\ auth.state = "done" =>
         /\ user.isAdmin
         /\ user.identity = "__admin"
         /\ logOuts.invoked = 0 => user.token = auth.credentials.data
         /\ user.token = auth.credentials.data =>
              \A p \in RefreshPaths :
                refreshAccessToken(user, p) =
                  [ kind |-> "return",
                    value |-> AccessToken(auth.credentials.data, NullExpires) ]

\* C6 happens: a refreshToken invocation of the admin user's configuration
\* obtained a token, and no request was sent.
C6_Witness ==
  /\ auth.credentials.provider = "__admin" /\ auth.state = "done"
  /\ config.state = "created" /\ config.token = AdminToken
  /\ network.authenticate = 0 /\ network.refresh = 0
  /\ \E c \in Calls : calls[c].result = "true"

\* C7 as stated: for a static-admin-token user the configuration never
\* makes a refreshToken invocation of its own (no refresh timer, no
\* self-rescheduling): every invocation is one from outside.
C7_AdminNeverRefreshes ==
  user.isTokenUser => \A c \in Calls : calls[c].kind = "forced"

\* C8: authenticate with anonymous credentials sends no request and returns
\* identity null, token null, isAdmin false; refreshAccessToken returns a
\* token-less non-expiring access token; create schedules no refresh; no
\* refreshToken invocation sends a request, and each resolves false.
C8_AnonymousNeverUsesNetwork ==
  auth.credentials.provider = "__anonymous" =>
    /\ network.authenticate = 0
    /\ network.refresh = 0
    /\ auth.state # "pending"
    /\ auth.state = "done" =>
         /\ user.identity = NULL /\ user.token = NULL /\ ~user.isAdmin
         /\ \A p \in RefreshPaths :
              refreshAccessToken(user, p) =
                [kind |-> "return", value |-> AccessToken(NULL, NullExpires)]
    /\ config.state \in {"none", "created"}
    /\ OwnCalls = {}
    /\ \A c \in Calls :
         /\ calls[c].pc \in {"delay", "done"}
         /\ calls[c].pc = "done" =>
              calls[c].result = "false" /\ calls[c].caught = NoError

\* C8 happens: the configuration of an anonymous user was created and a
\* forced refreshToken resolved.
C8_Witness ==
  /\ auth.credentials.provider = "__anonymous"
  /\ config.state = "created"
  /\ \E c \in Calls : calls[c].kind = "forced" /\ calls[c].pc = "done"

\* what the accessors have to return for a current access token
ExpectedHeaders(token, headers) ==
  IF token # NULL /\ token # ""
    THEN [h \in HeaderNames |->
            IF h = "authorization" THEN token ELSE headers[h]]
    ELSE headers

ExpectedParams(token) ==
  IF token # NULL /\ token # "" THEN { << "token", token >> } ELSE {}

\* C9: authLink returns the incoming headers with authorization set to the
\* token the latest completed refresh obtained, and connectionParams
\* returns that token; both add nothing when there is no token.
C9_AccessorsReturnLatestToken ==
  config.state = "created" =>
    /\ \A hs \in HeaderInputs :
         authLink(config, hs) = ExpectedHeaders(obtained.latest.token, hs)
    /\ connectionParams(config) = ExpectedParams(obtained.latest.token)

\* C9 happens: a refresh obtained another token than create did.
C9_Witness ==
  /\ config.state = "created"
  /\ obtained.latest.token # obtained.initial.token
  /\ connectionParams(config) = { << "token", obtained.latest.token >> }

\* C10: the connectionParams of a configuration that was created with an
\* access token are never empty.
C10_ConnectionParamsNeverEmpty ==
  (config.state = "created" /\ obtained.initial.token # NULL) =>
    /\ config.token # NULL
    /\ connectionParams(config) # {}

\* C10 happens: after a failed refresh, a successful one and logOut.
C10_Witness ==
  /\ config.state = "created" /\ obtained.initial.token # NULL
  /\ user.token = NULL /\ logOuts.invoked > 0
  /\ \E c \in Calls : calls[c].caught # NoError
  /\ \E c \in Calls : calls[c].result = "true"
  /\ connectionParams(config) # {}

\* C11: logOut always completes without raising, whatever revoke did (it
\* threw for a missing server, its request failed, the server answered with
\* another status than 200, or it returned), and user.token is null once a
\* logOut has completed.
C11_LogOutAlwaysCompletes ==
  /\ logOuts.rejected = 0
  /\ logOuts.resolved + revoking = logOuts.invoked
  /\ logOuts.resolved > 0 => user.token = NULL

\* a logOut of a user with a refresh token and without server completed:
\* revoke threw
C11_Witness ==
  /\ logOuts.resolved > 0
  /\ revoke(user) = "throw"
  /\ user.identity = "u1"
  /\ user.token = NULL
\* the initial refreshAccessToken of create threw: without a request for a
\* user without server, or after the request failed or was answered with
\* another status than 200 or with a body that is no JSON
InitialRefreshThrew ==
  \/ config.state # "none" /\ ~ServerSet(user.server)
  \/ config.answer.kind = "failure"
  \/ config.answer.kind = "response" /\ config.answer.status # 200
  \/ config.answer.kind = "response" /\ ~config.answer.json

\* the error that refreshAccessToken threw in that case
InitialRefreshError ==
  IF ~ServerSet(user.server) THEN ConfigurationError
  ELSE IF config.answer.kind = "failure" THEN FetchError
  ELSE IF ~config.answer.json THEN JsonError
  ELSE AuthError(config.answer.status)

\* C12: when the initial refreshAccessToken of create fails, create fails
\* with that error and yields no configuration; the authErrorHandler is not
\* invoked, no retry is attempted (the one request stays the only one) and
\* no refresh timer is scheduled (no refreshToken invocation exists).
C12_CreatePropagatesRefreshError ==
  InitialRefreshThrew =>
    /\ config.state = "failed"
    /\ config.error = InitialRefreshError
    /\ config.token = NULL
    /\ calls = << >>
    /\ network.refresh = IF ServerSet(user.server) THEN 1 ELSE 0

\* create with an authErrorHandler failed with the AuthError of its request
C12_Witness ==
  /\ config.state = "failed"
  /\ config.authErrorHandler
  /\ config.answer.kind = "response"
  /\ config.error \in {AuthError(st) : st \in ErrorStatuses}
\* create has settled for a user whose server URL has a scheme other than
\* http and https
CreatedWithOtherScheme ==
  /\ user.exists
  /\ ServerSet(user.server)
  /\ user.server.scheme \notin {"http", "https"}
  /\ config.state \notin {"none", "creating"}

\* C13 as stated: create for a user whose server URL scheme is neither http
\* nor https always fails with a configuration error.
C13_Original ==
  CreatedWithOtherScheme =>
    config.state = "failed" /\ config.error = ConfigurationError

\* C13: create for a user whose server URL scheme is neither http nor https
\* never yields a configuration; it fails with the configuration error of
\* the constructor when the initial refreshAccessToken succeeded, and with
\* the error of refreshAccessToken when that failed first.
C13_OtherSchemeNeverConfigured ==
  CreatedWithOtherScheme =>
    /\ config.state = "failed"
    /\ config.error = IF InitialRefreshThrew THEN InitialRefreshError
                       ELSE ConfigurationError

\* create reached the constructor with a token of the server and failed on
\* the scheme
C13_Witness ==
  /\ CreatedWithOtherScheme
  /\ config.answer.status = 200
  /\ config.error = ConfigurationError
\* C14: authenticate fails with a configuration error and issues no request
\* whenever the scheme of the server URL is neither http nor https, whatever
\* the provider of the credentials (the check precedes the short-circuits
\* for the admin and the anonymous provider).
C14_AuthenticateChecksSchemeFirst ==
  (auth.state # "none" /\ auth.server.scheme \notin {"http", "https"}) =>
    /\ auth.state = "failed"
    /\ auth.error = ConfigurationError
    /\ network.authenticate = 0
    /\ ~user.exists

\* authenticate with admin credentials was refused for its scheme
C14_Witness ==
  /\ auth.state = "failed"
  /\ auth.server.scheme = "HTTP"
  /\ auth.credentials = admin(AdminToken)
  /\ auth.error = ConfigurationError
\* C15: a refresh scheduled for an access token with finite expiry E at time
\* now (by the constructor, and by a successful refresh) has the delay
\* E - now - 10000; for E = now + 20000 that is 10000.  A step schedules at
\* most one.
C15_RefreshTenSecondsEarly ==
  [][ /\ Len(calls') <= Len(calls) + 1
      /\ \A c \in 1..Len(calls') :
           ( /\ c > Len(calls)
             /\ calls'[c].kind \in {"first", "next"}
             /\ obtained'.latest.expires # NullExpires ) =>
             /\ calls'[c].afterDelay
                  = obtained'.latest.expires - now - RefreshEarly
             /\ obtained'.latest.expires = now + 20000 =>
                  calls'[c].afterDelay = 10000 ]_vars

\* a successful refresh at a time other than 0 obtained a token that lives
\* 20000 ms and scheduled the next refresh 10000 ms later
C15_Witness ==
  /\ now > 0
  /\ obtained.latest.expires = now + 20000
  /\ \E c \in Calls :
       /\ calls[c].kind = "next"
       /\ calls[c].afterDelay = 10000
       /\ calls[c].due = now + 10000
\* C16: the AccessToken that refreshAccessToken makes from an answer of the
\* server (for a user that is neither a static-admin-token user nor
\* anonymous) carries the token of the answer and an expiry of the answer's
\* expires, in seconds since the epoch, times 1000, an absolute time in
\* milliseconds to which the current time is not added.
C16_ExpiresSecondsToMilliseconds ==
  obtained.from.kind = "response" =>
    /\ ~user.isTokenUser /\ user.identity # NULL
    /\ obtained.latest.token = obtained.from.token
    /\ obtained.latest.expires = obtained.from.expires * 1000

\* a token obtained at a time other than 0, where adding the current time
\* would give another expiry
C16_Witness ==
  /\ obtained.from.kind = "response"
  /\ now > 0
  /\ obtained.from.expires * 1000 = now + 20000
  /\ obtained.latest.expires = now + 20000
\* "%2Fu1%2Ftest" for the path "/u1/test"
RECURSIVE PercentEncoded(_)
PercentEncoded(path) ==
  IF path = << >> THEN << >>
  ELSE << "%2F", Head(path) >> \o PercentEncoded(Tail(path))

\* C17: httpEndpoint is the scheme and the host of user.server, followed by
\* /graphql/ and the rewritten realmPath as one percent-encoded segment
\* (http://h:9080 and /u1/test give http://h:9080/graphql/%2Fu1%2Ftest);
\* webSocketEndpoint is the same with ws for http and wss for https.
C17_Endpoints ==
  config.state = "created" =>
    /\ config.httpEndpoint.scheme = user.server.scheme
    /\ config.httpEndpoint.host = user.server.host
    /\ config.httpEndpoint.path
         = << << "graphql" >>, PercentEncoded(config.realmPath) >>
    /\ ( /\ user.server = [scheme |-> "http", host |-> "h:9080"]
         /\ config.realmPath = << "u1", "test" >> ) =>
         config.httpEndpoint
           = [ scheme |-> "http", host |-> "h:9080",
               path |-> << << "graphql" >>,
                           << "%2F", "u1", "%2F", "test" >> >> ]
    /\ config.webSocketEndpoint.host = config.httpEndpoint.host
    /\ config.webSocketEndpoint.path = config.httpEndpoint.path
    /\ config.httpEndpoint.scheme = "http" =>
         config.webSocketEndpoint.scheme = "ws"
    /\ config.httpEndpoint.scheme = "https" =>
         config.webSocketEndpoint.scheme = "wss"

\* a configuration of user u1 at https://ros.example for the path /~/test
C17_Witness ==
  /\ config.state = "created"
  /\ user.identity = "u1"
  /\ user.server = [scheme |-> "https", host |-> "ros.example"]
  /\ config.realmPath = << "u1", "test" >>
  /\ config.webSocketEndpoint.scheme = "wss"
\* C18: with isQueryBasedSync the path of the configuration is the
\* substituted realmPath followed by /__partial/<user.identity>/graphql-client
\* (/~/test of u1 becomes /u1/test/__partial/u1/graphql-client), from the
\* initial refreshAccessToken on: every refresh request and both endpoints
\* use it.
C18_PartialSyncPath ==
  (config.state # "none" /\ config.isQueryBasedSync) =>
    /\ \E p \in RealmPathInputs :
         config.realmPath
           = ReplaceRoot(p, user.identity)
               \o << "__partial", user.identity, "graphql-client" >>
    /\ user.identity = "u1" =>
         config.realmPath
           = << "u1", "test", "__partial", "u1", "graphql-client" >>
    /\ network.last.op = "refresh" => network.last.path = config.realmPath
    /\ config.state = "creating" => network.refresh = 1
    /\ config.state = "created" =>
         /\ config.httpEndpoint.path[2] = PercentEncoded(config.realmPath)
         /\ config.webSocketEndpoint.path[2]
              = PercentEncoded(config.realmPath)

\* the refresh loop of a query based sync configuration of u1 has sent a
\* request of its own
C18_Witness ==
  /\ config.state = "created"
  /\ config.isQueryBasedSync
  /\ user.identity = "u1"
  /\ network.refresh >= 2
  /\ network.last.op = "refresh"
\* the provider documented for a constructor
Discriminant(ctor) ==
  CASE ctor = "facebook" -> "facebook"
    [] ctor = "google" -> "google"
    [] ctor = "azureAD" -> "azuread"
    [] ctor = "jwt" -> "jwt"
    [] ctor = "admin" -> "__admin"
    [] ctor = "anonymous" -> "__anonymous"
    [] ctor = "usernamePassword" -> "password"

\* C19 as stated: the payload of a constructor has the provider documented
\* for it and, as data, the token or password the caller gave.
C19_Original ==
  /\ built.ctor \in TokenConstructors =>
       /\ built.value.provider = Discriminant(built.ctor)
       /\ built.value.data = built.args[1]
  /\ built.ctor = "usernamePassword" =>
       /\ built.value.provider = Discriminant(built.ctor)
       /\ built.value.data = built.args[2]

\* C19: facebook, google, azureAD, jwt and admin return the provider
\* documented for them and the token of the caller as data; anonymous
\* returns its provider and no data; usernamePassword returns its provider,
\* the username (not the password) as data and a user_info with the password
\* of the caller and register, false when createUser is omitted; Custom
\* returns the provider, token and userInfo of the caller.
C19_CredentialsPayload ==
  /\ built.ctor \in TokenConstructors =>
       /\ built.value.provider = Discriminant(built.ctor)
       /\ built.value.data = built.args[1]
       /\ ~built.value.user_info.present
  /\ built.ctor = "anonymous" =>
       /\ built.value.provider = Discriminant(built.ctor)
       /\ built.value.data = NULL
       /\ ~built.value.user_info.present
  /\ built.ctor = "usernamePassword" =>
       /\ built.value.provider = Discriminant(built.ctor)
       /\ built.value.data = built.args[1]
       /\ built.value.user_info.present
       /\ built.value.user_info.password = built.args[2]
       /\ built.value.user_info.register = (built.args[3] = "true")
       /\ built.args[3] = Undefined => ~built.value.user_info.register
  /\ built.ctor = "Custom" =>
       /\ built.value.provider = built.args[1]
       /\ built.value.data = built.args[2]
       /\ built.value.user_info = built.args[3]

\* usernamePassword was called without createUser, with a password that
\* differs from the username
C19_Witness ==
  /\ built.ctor = "usernamePassword"
  /\ built.args = << "alice", "pw", Undefined >>
  /\ built.value.data = "alice"
  /\ built.value.user_info.password = "pw"
  /\ ~built.value.user_info.register
\* C20: refreshAccessToken for a user without server fails with a
\* configuration error and without a request, also for an anonymous and for
\* a static-admin-token user: create, which calls it, fails with that error
\* and nothing is ever requested or scheduled.
C20_ServerCheckedFirst ==
  (user.exists /\ user.server = NoServer) =>
    /\ network.refresh = 0
    /\ config.state # "none" =>
         /\ config.state = "failed"
         /\ config.error = ConfigurationError
         /\ config.token = NULL
         /\ calls = << >>

\* create failed for a static-admin-token user without server
C20_Witness ==
  /\ user.exists
  /\ user.server = NoServer
  /\ user.isTokenUser
  /\ config.state = "failed"
  /\ config.error = ConfigurationError

\* C21: authenticate, refreshAccessToken and revoke fail with the AuthError
\* of the response's status whenever the server answers with another status
\* than 200, and produce their result only on status 200.
C21_OtherStatusIsAuthError ==
  /\ auth.answer.kind = "response" =>
       IF auth.answer.status # 200
         THEN auth.state = "failed" /\ auth.error = AuthError(auth.answer.status)
         ELSE auth.state = "done"
  /\ config.answer.kind = "response" /\ config.answer.status # 200 =>
       /\ config.state = "failed"
       /\ config.error = AuthError(config.answer.status)
  /\ config.state = "created" /\ config.answer.kind # "none" =>
       config.answer.status = 200
  /\ revoking > 0 =>
       \A rs \in RevokeResponses :
         rs.kind = "response" =>
           revokeResult(rs) = IF rs.status # 200 THEN AuthError(rs.status)
                              ELSE NoError

\* the outstanding refreshes: the invocations whose timer is pending or
\* whose request is in flight
Outstanding == { c \in Calls : calls[c].pc \in {"delay", "request"} }

\* C22: a GraphQLConfig holds at most one outstanding refresh (a pending
\* timer or a request in flight) at any time, forced refreshToken calls
\* included.
C22_AtMostOneOutstanding ==
  config.state = "created" => Cardinality(Outstanding) <= 1

\* no refreshToken invocation was made from outside the configuration
NeverForced == \A c \in Calls : calls[c].kind # "forced"

\* C23: when refreshToken is never called from outside, at most one refresh
\* continuation (pending timer or request in flight) exists at any time: an
\* invocation makes at most one successor, and has ended (or handed its
\* promise to its retry) when it has made one.
C23_SingleChain ==
  NeverForced =>
    /\ Cardinality(Outstanding) <= 1
    /\ \A c \in Calls :
         /\ Cardinality(MadeBy(c)) <= 1
         /\ MadeBy(c) # {} => calls[c].pc \in {"done", "retrying"}

\* the chain of create is at its third invocation, after a success and a
\* failure, and its retry timer is pending
C23_Witness ==
  /\ NeverForced
  /\ Len(calls) = 3
  /\ calls[1].kind = "first" /\ calls[1].result = "true"
  /\ calls[2].kind = "next" /\ calls[2].pc = "retrying"
  /\ calls[3].kind = "retry" /\ calls[3].pc = "delay"
  /\ Outstanding = {3}

\* the request of invocation c is answered with a token in this step
Succeeds(c) == calls[c].pc = "request" /\ calls'[c].result = "true"

\* C24: whenever a refresh request succeeds, be it the one of a forced or of
\* a timer-driven invocation and whatever was obtained before, the current
\* access token afterwards is the token of its answer: of two overlapping
\* refreshes the one that completes last decides the token.
C24_LastCompletionWins ==
  [][ \A c \in Calls :
        Succeeds(c) =>
          /\ config'.token = obtained'.from.token
          /\ obtained'.from.status = 200
          /\ obtained'.latest.token = obtained'.from.token ]_vars

\* the timer-driven and the forced request were in flight together; the
\* forced one completed first, the timer-driven one last, with another token
\* that expires earlier than the one the forced call obtained: it is the
\* current access token
C24_Witness ==
  /\ Len(calls) = 4
  /\ calls[1].kind = "first" /\ calls[1].result = "true"
  /\ calls[2].kind = "forced" /\ calls[2].result = "true"
  /\ calls[3].by = 2 /\ calls[4].by = 1
  /\ obtained.raced
  /\ ToNumber(obtained.latest.expires) < calls[3].due + RefreshEarly
  /\ config.token = obtained.latest.token
  /\ config.token = "a2"

\* a forced and a timer-driven request are in flight together
Racing ==
  \E c, d \in Calls :
    /\ calls[c].pc = "request" /\ calls[c].kind = "forced"
    /\ calls[d].pc = "request" /\ calls[d].kind # "forced"

\* the current access token has not expired
TokenFresh ==
  /\ Truthy(config.token)
  /\ config.token = obtained.latest.token
  /\ ToNumber(obtained.latest.expires) > now

\* the behaviour has been followed for as many invocations as are explored
Horizon == Len(calls) >= limit

C25_Expired ==
  /\ config.state = "created"
  /\ ~TokenFresh
  /\ ~Horizon
  /\ obtained.raced

\* invocation c ends in this step and leaves no successor: its chain stops
Stops(c) ==
  /\ calls[c].pc \in {"delay", "request"}
  /\ calls'[c].pc = "done"
  /\ \A d \in 1..Len(calls') : calls'[d].by # c

\* C26 as stated: a refresh chain stops only by observing user.token null
\* when its timer fires.
C26_Original ==
  [][ \A c \in Calls : Stops(c) => (Fires(c) /\ user.token = NULL) ]_vars

\* C26: a refresh chain stops only when its timer fires while user.token is
\* null, when the authErrorHandler returned true for its failure, when the
\* authErrorHandler threw, or when its failed invocation was made with
\* shouldRetry false; every other invocation that ends leaves a successor.
C26_ChainStopsOnlyBy ==
  [][ \A c \in Calls :
        Stops(c) =>
          \/ Fires(c) /\ user.token = NULL /\ calls'[c].caught = NoError
          \/ calls'[c].caught # NoError /\ calls'[c].verdict = "true"
          \/ calls'[c].caught # NoError /\ calls'[c].verdict = "threw"
          \/ calls'[c].caught # NoError /\ ~calls[c].shouldRetry ]_vars

\* the chain of create stopped while the user was logged in: the handler
\* returned true for a failed attempt
C26_Witness ==
  /\ user.token # NULL
  /\ Outstanding = {}
  /\ \E c \in Calls :
       /\ calls[c].kind # "forced"
       /\ calls[c].shouldRetry
       /\ calls[c].pc = "done"
       /\ calls[c].verdict = "true"
       /\ calls[c].result = "false"
       /\ MadeBy(c) = {}

\* C27: for a configuration created with a token that expires, while
\* user.token is not null (it never was: only logOut writes it) and no
\* authErrorHandler call has returned true or thrown, at least one refresh
\* timer is pending or one refresh request is in flight.
C27_LoopNeverDies ==
  ( /\ config.state = "created"
    /\ TruthyExpires(obtained.initial.expires)
    /\ user.token # NULL
    /\ \A c \in Calls : calls[c].verdict \notin {"true", "threw"} )
  => Outstanding # {}

\* the loop went through a failure the handler did not declare fatal and
\* through a success, and its next timer is pending
C27_Witness ==
  /\ config.state = "created"
  /\ config.authErrorHandler
  /\ user.token # NULL
  /\ Len(calls) = 3
  /\ calls[1].kind = "first" /\ calls[1].verdict = "falsy"
  /\ calls[2].kind = "retry" /\ calls[2].result = "true"
  /\ calls[3].kind = "next" /\ calls[3].pc = "delay"
  /\ Outstanding = {3}

\* the refresh requests in flight
InFlight == { c \in Calls : calls[c].pc = "request" }

\* the forced invocations made so far
Forced == { c \in Calls : calls[c].kind = "forced" }

\* logOut has completed
LoggedOut == logOuts.resolved > 0 /\ user.token = NULL

\* the explored number of invocations leaves room for what can still be
\* invoked: a successor of every request in flight, and the forced calls
\* that were not made yet
Room ==
  Len(calls) + Cardinality(InFlight) + (MaxForced - Cardinality(Forced))
    <= limit

\* every chain has stopped: nothing is outstanding but timers that are due
\* after the explored time span
ChainsStopped ==
  \A c \in Outstanding : calls[c].pc = "delay" /\ calls[c].due > MaxNow

\* C28: after logOut has completed, when timers fire and requests complete,
\* every refresh chain (the scheduled one, forced ones, requests in flight
\* at logout) stops: no request is in flight and no timer fires any more;
\* once user.token is null and no request is in flight the current access
\* token never changes, and the accessors keep returning it: the last
\* token obtained.
C28_ChainsStopAfterLogOut ==
  /\ (LoggedOut /\ Room) ~> ChainsStopped
  /\ [][ (config.state = "created" /\ user.token = NULL /\ InFlight = {}) =>
           /\ config'.token = config.token
           /\ InFlight' = {}
           /\ connectionParams(config') = connectionParams(config) ]_vars
  /\ [](config.state = "created" => config.token = obtained.latest.token)

\* logOut completed while the timer-driven and the forced request were in
\* flight; both were answered and both successors stopped at the logged-out
\* check: nothing is outstanding
C28_Witness ==
  /\ LoggedOut
  /\ Outstanding = {}
  /\ obtained.raced
  /\ Len(calls) = 4
  /\ calls[1].kind = "first" /\ calls[2].kind = "forced"
  /\ \A c \in {3, 4} :
       /\ calls[c].kind = "next"
       /\ calls[c].result = "false"
       /\ calls[c].caught = NoError
  /\ Truthy(config.token)

\* the forced invocations made with shouldRetry false: refreshToken(0, false)
Probes == { c \in Forced : ~calls[c].shouldRetry /\ calls[c].afterDelay = 0 }

\* C29: a forced refreshToken(0, false) makes at most one request and then
\* resolves, true when the request succeeded and false otherwise; it never
\* hands over to a retry, whatever the authErrorHandler does.
C29_ProbeResolves ==
  \A c \in Probes :
    /\ calls[c].pc # "retrying"
    /\ \A d \in MadeBy(c) : calls[d].kind = "next"
    /\ calls[c].pc = "done" =>
         /\ calls[c].result \in {"true", "false"}
         /\ calls[c].result = "true" <=>
              (calls[c].caught = NoError /\ MadeBy(c) # {})

\* the same for the handlers that return
C29_ProbeResolvesUnlessHandlerThrows ==
  \A c \in Probes :
    /\ calls[c].pc # "retrying"
    /\ \A d \in MadeBy(c) : calls[d].kind = "next"
    /\ (calls[c].pc = "done" /\ calls[c].verdict # "threw") =>
         /\ calls[c].result \in {"true", "false"}
         /\ calls[c].result = "true" <=>
              (calls[c].caught = NoError /\ MadeBy(c) # {})
    /\ (calls[c].pc = "done" /\ calls[c].verdict = "threw") =>
         calls[c].result = "rejected"

\* the retry that invocation c returned the promise of, if any
RetryOf(c) == { d \in MadeBy(c) : calls[d].kind = "retry" }

\* the last invocation of the retry chain of invocation c
RECURSIVE LastOf(_)
LastOf(c) == IF RetryOf(c) = {} THEN c ELSE LastOf(CHOOSE d \in RetryOf(c) : TRUE)

\* invocation c obtained a token: its try branch ran and rescheduled
ObtainedToken(c) == \E d \in MadeBy(c) : calls[d].kind = "next"

\* invocation c ended without a token and without a successor
StoppedWithoutSuccess(c) ==
  calls[c].pc = "done" /\ MadeBy(c) = {}

\* C30: the promise of a refreshToken invocation resolves to true exactly
\* when an attempt of its retry chain obtained a token (the current access
\* token then is a token that was obtained), and to false exactly when the
\* chain stopped without success and without the handler throwing: at the
\* logged-out check, after the handler returned true, or after a failure
\* of an invocation made with shouldRetry false (a chain that the handler's
\* throw stops rejects the promise); with shouldRetry true and no handler
\* it resolves to false only when user.token is null.
C30_PromiseTellsOutcome ==
  \A c \in Calls :
    LET l == LastOf(c) IN
    /\ calls[c].result = "true" <=> ObtainedToken(l)
    /\ calls[c].result = "true" => config.token = obtained.latest.token
    /\ calls[c].result = "false" <=>
         (StoppedWithoutSuccess(l) /\ calls[l].verdict # "threw")
    /\ calls[c].result = "false" =>
         \/ calls[l].caught = NoError
         \/ calls[l].verdict = "true"
         \/ ~calls[l].shouldRetry
    /\ calls[c].result = "rejected" <=>
         (StoppedWithoutSuccess(l) /\ calls[l].verdict = "threw")
    /\ ( /\ calls[c].result = "false"
         /\ calls[c].shouldRetry
         /\ ~config.authErrorHandler ) => user.token = NULL

\* the first attempt of the chain of create failed, its retry obtained a
\* token: the promise of the first invocation resolved to true
C30_Witness ==
  /\ Len(calls) = 3
  /\ calls[1].kind = "first"
  /\ calls[1].caught # NoError
  /\ calls[1].result = "true"
  /\ calls[2].kind = "retry" /\ calls[2].by = 1 /\ calls[2].result = "true"
  /\ calls[3].kind = "next" /\ calls[3].by = 2
  /\ config.token = obtained.latest.token

\* C31: no error escapes a refresh continuation: every failure caught in
\* refreshToken ends in a retry or in a resolved promise, and the promise
\* of an invocation the configuration made itself never rejects.
C31_NoErrorEscapes ==
  \A c \in Calls :
    /\ calls[c].caught # NoError =>
         \/ calls[c].pc = "retrying"
         \/ calls[c].pc = "done" /\ calls[c].result \in {"true", "false"}
    /\ c \in OwnCalls => calls[c].result # "rejected"

\* C32: when create fails, no refresh timer is pending and no refresh
\* request is issued for the configuration that failed to be created: no
\* refreshToken invocation exists, and the request of create stays the only
\* one.
C32_FailedCreateLeavesNothing ==
  config.state = "failed" =>
    /\ calls = << >>
    /\ network.refresh <= 1

\* C33: create replaces the root placeholder of realmPath by user.identity
\* once, before the first request: the request of create, every later
\* refresh request and both endpoints use the rewritten path /u1/test (with
\* the suffix of a query based sync), in which no placeholder is left, and
\* the path of the configuration never changes.
C33_PathRewrittenOnce ==
  /\ [](config.state # "none" =>
          /\ config.realmPath[1] = user.identity
          /\ config.realmPath[2] = "test"
          /\ \A i \in 1..Len(config.realmPath) : config.realmPath[i] # "~"
          /\ Len(config.realmPath)
               = IF config.isQueryBasedSync THEN 5 ELSE 2
          /\ network.last.op = "refresh" =>
               network.last.path = config.realmPath
          /\ config.state = "created" =>
               /\ config.httpEndpoint.path[2]
                    = PercentEncoded(config.realmPath)
               /\ config.webSocketEndpoint.path[2]
                    = PercentEncoded(config.realmPath))
  /\ [][ /\ config.state # "none" => config'.realmPath = config.realmPath
         /\ network'.refresh > network.refresh =>
              /\ config'.state # "none"
              /\ network'.last.op = "refresh"
              /\ network'.last.path = config'.realmPath ]_vars

\* the refresh loop of the configuration of u1 for /~/test has sent a
\* request of its own, for /u1/test
C33_Witness ==
  /\ config.state = "created"
  /\ ~config.isQueryBasedSync
  /\ user.identity = "u1"
  /\ network.refresh >= 2
  /\ network.last = Request("refresh", user.token, << "u1", "test" >>)
  /\ \E c \in Calls : calls[c].pc = "request"

\* C34: the realmPath in the request of RealmHelper.create is the realmPath
\* of every later refresh request of the helper and of its endpoints,
\* whatever the input path.
C34_HelperUsesOnePath ==
  helper.state = "created" =>
    /\ \A i \in 1..Len(helper.requests) :
         helper.requests[i].path = helper.requests[1].path
    /\ helper.requests # << >> =>
         /\ helper.httpEndpoint.path[2]
              = PercentEncoded(helper.requests[1].path)
         /\ helper.webSocketEndpoint.path[2]
              = PercentEncoded(helper.requests[1].path)

\* C35: no operation of the GraphQLConfig writes to the User object: a step
\* of create, of a timer-driven or forced refreshToken leaves the user as
\* it was, and the user changes only in a step of authenticate, new User
\* or logOut.
C35_ConfigNeverWritesUser ==
  [][ /\ (config' # config \/ calls' # calls \/ obtained' # obtained) =>
           user' = user
      /\ user' # user =>
           \/ ~user.exists
           \/ auth' # auth
           \/ logOuts' # logOuts ]_vars

\* a timer-driven refresh has written a token to the configuration and a
\* forced refresh has failed, and the user still holds the refresh token
C35_Witness ==
  /\ config.state = "created"
  /\ user.token = "r1"
  /\ \E c \in Calls : /\ calls[c].kind = "forced"
                      /\ calls[c].caught # NoError
                      /\ calls[c].pc = "done"
  /\ \E c \in Calls : /\ calls[c].kind = "first"
                      /\ calls[c].result = "true"
  /\ config.token = obtained.latest.token
  /\ obtained.latest # obtained.initial

\* C36: authenticate leaves the credentials object it was given with the
\* fields and values it had before the call, for every provider: it assigns
\* no property to it.
C36_CredentialsNeverMutated ==
  auth.state # "none" => auth.assigned = {}

\* C37: logOut hands the revoke request to fetch with the token the user
\* holds, in its body and in its authorization header, and leaves the user
\* as it is; user.token becomes null only when that request has completed
\* or failed (or in a logOut that makes no request); a refresh timer that
\* fires while the revoke is in flight and the token is set issues a
\* refresh request with that token.
C37_TokenClearedAfterRevoke ==
  [][ /\ revoking' > revoking =>
           /\ network'.revoke = network.revoke + 1
           /\ network'.last.op = "revoke"
           /\ network'.last.token = user.token
           /\ network'.last.authorization = user.token
           /\ user' = user
      /\ (user.token # NULL /\ user'.token = NULL) =>
           /\ logOuts'.resolved = logOuts.resolved + 1
           /\ revoking' = revoking - 1 \/ network' = network
      /\ \A c \in Calls :
           ( /\ revoking > 0
             /\ user.token # NULL
             /\ calls[c].pc = "delay"
             /\ calls'[c].pc # "delay" ) =>
             /\ calls'[c].pc = "request"
             /\ network'.refresh = network.refresh + 1
             /\ network'.last.op = "refresh"
             /\ network'.last.token = user.token ]_vars

\* while the revoke request of a user holding r1 is in flight, a refresh
\* timer fired and its refresh request went out after the revoke request
C37_Witness ==
  /\ revoking > 0
  /\ network.revoke = 1
  /\ user.token = "r1"
  /\ network.last.op = "refresh"
  /\ network.last.token = "r1"
  /\ \E c \in Calls : calls[c].pc = "request"

\* the operation was sent again after retryIf awaited a refresh that wrote
\* a token
RetriedAfterRefresh ==
  /\ link.state = "sent"
  /\ link.count > 0
  /\ link.written # NULL

\* C38: in the client of createApolloClient a failed HTTP operation whose
\* error has result.status 401 makes retryIf await refreshToken(0, false)
\* before it returns, and the retried operation carries the token that
\* refresh wrote when it succeeded; an error with another status triggers
\* no refresh; retryIf returns true in every case.
C38_RetryAfterRefresh ==
  /\ link.state # "hung"
  /\ link.state = "deciding" =>
       /\ link.status = 401
       /\ link.call \in Calls
       /\ calls[link.call].kind = "forced"
       /\ calls[link.call].afterDelay = 0
       /\ ~calls[link.call].shouldRetry
  /\ link.state = "decided" =>
       /\ link.decision = "true"
       /\ link.status = 401 =>
            /\ link.call \in Calls
            /\ calls[link.call].result \in {"true", "false"}
       /\ link.status # 401 => link.call = 0
  /\ RetriedAfterRefresh => link.authorization = link.written

\* the pc of a timer of the closure that matches the pc of a refreshToken
\* invocation: an invocation that returned the promise of its retry has
\* run to its end
ClosurePc(pc) == IF pc = "retrying" THEN "done" ELSE pc

\* the helper and the configuration were created for a path without the
\* placeholder, without query based sync, and no refresh was forced
SameArguments ==
  /\ helper.state \notin {"absent", "none"}
  /\ \A i \in 1..Len(helper.input) : helper.input[i] # "~"
  /\ ~config.isQueryBasedSync
  /\ \A c \in Calls : calls[c].kind # "forced"

\* C39: for a realmPath without the placeholder, without query based sync
\* and without forced refreshes, the refresh closure of RealmHelper and the
\* refreshToken loop of GraphQLConfig do the same against the same user,
\* handler and server: the same refresh requests in the same order, the
\* same timers with the same delays, the handler invoked for the same
\* failures, and the same token in authLink and connectionParams, in every
\* state.
C39_HelperAndConfigAgree ==
  /\ [](SameArguments =>
          /\ helper.state = config.state
          /\ helper.state = "created" => helper.realmPath = config.realmPath
          /\ helper.httpEndpoint = config.httpEndpoint
          /\ helper.webSocketEndpoint = config.webSocketEndpoint
          /\ Len(helper.requests) = network.refresh
          /\ Len(helper.timers) = Len(calls)
          /\ \A c \in Calls :
               /\ helper.timers[c].afterDelay = calls[c].afterDelay
               /\ helper.timers[c].due = calls[c].due
               /\ helper.timers[c].pc = ClosurePc(calls[c].pc)
               /\ helper.timers[c].reported = calls[c].reported
          /\ helper.token = config.token
          /\ helperConnectionParams(helper) = connectionParams(config)
          /\ \A h \in HeaderInputs :
               helperAuthLink(helper, h) = authLink(config, h))
  /\ [][ SameArguments' =>
           /\ network'.refresh > network.refresh =>
                helper'.requests = Append(helper.requests, network'.last)
           /\ network'.refresh = network.refresh =>
                helper'.requests = helper.requests ]_vars

\* both loops reported a failure to the handler, retried, obtained a new
\* token and scheduled the refresh after it
C39_Witness ==
  /\ SameArguments
  /\ helper.state = "created"
  /\ helper.authErrorHandler
  /\ Len(helper.timers) = 3
  /\ Len(helper.requests) >= 3
  /\ helper.timers[1].reported # << >>
  /\ helper.timers[2].pc = "done"
  /\ helper.timers[3].pc = "delay"
  /\ helper.token = obtained.latest.token
  /\ obtained.latest # obtained.initial
====
